---- MODULE Spec2Model ----
(***************************************************************************)
(* A model of pytask.py's SecureExtensionSandbox and ExtensionValidator:   *)
(* one host process that calls the sandbox, the process-wide state the     *)
(* sandbox touches (resource limits, the SIGALRM timer and handler, the    *)
(* environment, scratch directories) and the child process of the          *)
(* isolated path.  Texts are TLA+ strings; Python values are tagged        *)
(* records.                                                                *)
(***************************************************************************)
EXTENDS Integers, Sequences, FiniteSets, TLC

VARIABLES
    platform,         \* sys.platform
    privileged,       \* the process may raise a hard limit (CAP_SYS_RESOURCE)
    rlimits,          \* resource.getrlimit: name -> <<soft, hard>>
    environ,          \* os.environ: a function from names to values
    execution_count,  \* SecureExtensionSandbox.execution_count
    fs,               \* the scratch directories and files that exist
    calls,            \* how many calls the host has made
    pc,               \* where the host thread is
    entry,            \* the method the host called
    code,             \* the call's code argument (source text)
    context,          \* the call's context argument
    tmpdir,           \* the invocation's scratch directory ("" when none)
    child,            \* the child process of the isolated path
    original_limits,  \* _resource_limits' original_limits, in insertion order
    alarm_armed,      \* a SIGALRM is pending in the host process
    handler,          \* the host's SIGALRM handler
    old_handler,      \* _execute_inline's old_handler
    elapsed,          \* seconds since the timer was armed / the wait started
    ip,               \* index of the snippet statement to execute next
    ns_result,        \* namespace['result']
    output_buffer,    \* the lines capture_print has collected
    exc,              \* the exception that is propagating (NoExc when none)
    outcome,          \* what the call gave its caller
    verdict,          \* the validator's decision in this invocation
    executed,         \* a statement of the snippet has been executed
    setup_at_verdict, \* the setup that was in force when the validator decided
    call_limits,      \* rlimits when the call started
    io_fault,         \* the operating system failed a write or a launch
    call_context,     \* the value of the context argument when the call started
    ns_builtins,      \* namespace['__builtins__']: name -> kind of object
    ns_context,       \* namespace['context']
    private_reads,    \* the underscore attributes the snippet has read
    limits_error,     \* the error setrlimit gave while the limits were lowered
    prev,             \* the call before this one, as its caller kept it
    strategy,         \* the strategies execute_extension dispatched to in this call
    threads,          \* the callers that share one sandbox: thread -> its frame
    tasks,            \* the rows of table tasks, by id
    phases,           \* the rows of table phases, by id
    audit_log,        \* the rows of table audit_log
    tm_call,          \* the last TaskManager / PhaseManager call and what it gave
    wizard_states,    \* the rows of table wizard_states, in rowid order
    recovery_cache,   \* WizardStateManager.recovery_cache: session_id -> state
    now,              \* the wall clock, in hours
    wz_call           \* the last WizardStateManager call and what it gave

vars == <<platform, privileged, rlimits, environ, execution_count, fs, calls,
          pc, entry, code, context, tmpdir, child, original_limits,
          alarm_armed, handler, old_handler, elapsed, ip, ns_result,
          output_buffer, exc, outcome, verdict, executed, setup_at_verdict,
          call_limits, io_fault, call_context, ns_builtins, ns_context,
          private_reads, limits_error, prev, strategy, threads, tasks, phases,
          audit_log, tm_call, wizard_states, recovery_cache, now, wz_call>>

(***************************************************************************)
(* Bounds of the model.                                                    *)
(***************************************************************************)
\* How many calls the host makes.
MaxCalls == 2
\* A hard limit below each of the sandbox's ceilings, for a restricted host.
LowLimit == 4
\* How many characters more than the 1000 of _safe_print a snippet prints.
Excess == 1

(***************************************************************************)
(* Text.                                                                   *)
(***************************************************************************)
LowerAlpha == "abcdefghijklmnopqrstuvwxyz"
UpperAlpha == "ABCDEFGHIJKLMNOPQRSTUVWXYZ"

CharAt(s, i) == SubSeq(s, i, i)

\* the upper-case letter of each lower-case letter
UpperOf ==
    [c \in {CharAt(LowerAlpha, i) : i \in 1..Len(LowerAlpha)} |->
        CharAt(UpperAlpha, CHOOSE i \in 1..Len(LowerAlpha) : CharAt(LowerAlpha, i) = c)]

\* str.upper on one character
UpperChar(c) == IF c \in DOMAIN UpperOf THEN UpperOf[c] ELSE c

RECURSIVE Upper(_)
\* str.upper
Upper(s) ==
    IF Len(s) = 0 THEN ""
    ELSE UpperChar(CharAt(s, 1)) \o Upper(SubSeq(s, 2, Len(s)))

\* sub in s
Contains(s, sub) ==
    \E i \in 1..(Len(s) - Len(sub) + 1) : SubSeq(s, i, i + Len(sub) - 1) = sub

\* s.startswith(prefix)
StartsWith(s, prefix) ==
    Len(s) >= Len(prefix) /\ SubSeq(s, 1, Len(prefix)) = prefix

RECURSIVE Repeat(_, _)
\* s * n
Repeat(s, n) ==
    IF n <= 0 THEN ""
    ELSE IF n = 1 THEN s
    ELSE LET h == Repeat(s, n \div 2)
         IN  IF n % 2 = 0 THEN h \o h ELSE h \o h \o s

RECURSIVE JoinWith(_, _)
\* sep.join(parts)
JoinWith(sep, parts) ==
    IF Len(parts) = 0 THEN ""
    ELSE IF Len(parts) = 1 THEN parts[1]
    ELSE parts[1] \o sep \o JoinWith(sep, Tail(parts))

(***************************************************************************)
(* Python values.                                                          *)
(***************************************************************************)
PyNone == [t |-> "NoneType"]
PyInt(n) == [t |-> "int", i |-> n]
PyStr(s) == [t |-> "str", s |-> s]
PyBool(b) == [t |-> "bool", b |-> b]
PyList(l) == [t |-> "list", l |-> l]
PyDict(d) == [t |-> "dict", d |-> d]
PySet == [t |-> "set"]
PyObject == [t |-> "object"]

Digits == "0123456789"

RECURSIVE IntStr(_)
\* str(n) of a natural number
IntStr(n) ==
    IF n < 10 THEN CharAt(Digits, n + 1)
    ELSE IntStr(n \div 10) \o CharAt(Digits, (n % 10) + 1)

\* str(arg), as capture_print and _safe_print apply it
Str(v) ==
    CASE v.t = "str" -> v.s
      [] v.t = "int" -> IntStr(v.i)
      [] v.t = "NoneType" -> "None"
      [] v.t = "bool" -> IF v.b THEN "True" ELSE "False"
      [] OTHER -> "<" \o v.t \o ">"

RECURSIVE JSONSerializable(_)
\* json.dump accepts the value
JSONSerializable(v) ==
    CASE v.t \in {"NoneType", "int", "str", "bool"} -> TRUE
      [] v.t = "list" -> \A i \in DOMAIN v.l : JSONSerializable(v.l[i])
      [] v.t = "dict" -> \A k \in DOMAIN v.d : JSONSerializable(v.d[k])
      [] OTHER -> FALSE

(***************************************************************************)
(* SecureExtensionSandbox: constants and the capability allowlist.         *)
(***************************************************************************)
MEMORY_LIMIT_MB == 50
EXECUTION_TIMEOUT_SECONDS == 5
MAX_FILE_SIZE_MB == 10
MAX_OPEN_FILES == 10
\* _safe_print's limit on one printed line
PrintLimit == 1000
\* resource.RLIM_INFINITY
RLIM_INFINITY == -1

BuiltinClasses ==
    {"int", "float", "str", "bool", "list", "tuple", "dict", "set", "frozenset",
     "bytes", "bytearray", "range", "enumerate", "zip", "map", "filter",
     "reversed", "type"}
BuiltinFunctions ==
    {"len", "sorted", "sum", "min", "max", "abs", "round", "pow", "all", "any",
     "chr", "ord", "isinstance", "issubclass", "hasattr", "getattr"}
BlockedBuiltins ==
    {"__import__", "eval", "exec", "compile", "open", "input", "breakpoint",
     "help", "dir", "globals", "locals", "vars"}

\* the table with the blocked names bound to the builtins themselves
SafeBuiltinsUnblocked ==
    [n \in BuiltinClasses \cup BuiltinFunctions \cup {"print"} \cup BlockedBuiltins |->
        IF n \in BuiltinClasses THEN "class"
        ELSE IF n = "print" THEN "bound_method"
        ELSE "builtin_function"]

\* _create_safe_builtins: the name -> the kind of object bound to it
safe_builtins ==
    [n \in BuiltinClasses \cup BuiltinFunctions \cup {"print"} \cup BlockedBuiltins |->
        IF n \in BuiltinClasses THEN "class"
        ELSE IF n \in BuiltinFunctions THEN "builtin_function"
        ELSE IF n = "print" THEN "bound_method"
        ELSE "None"]

\* _safe_print's text for one argument list already joined
SafePrintText(output) ==
    IF Len(output) > PrintLimit
    THEN SubSeq(output, 1, PrintLimit - 3) \o "..."
    ELSE output

(***************************************************************************)
(* ExtensionValidator over syntax trees.  A node is                        *)
(* [kind, id, val, kids]: id is a Name's id, an Attribute's attr or an     *)
(* operator; val a Constant's value; kids the child nodes in field order.  *)
(***************************************************************************)
Node(kind, id, val, kids) == [kind |-> kind, id |-> id, val |-> val, kids |-> kids]
Name(id) == Node("Name", id, PyNone, <<>>)
Const(v) == Node("Constant", "", v, <<>>)
Attribute(value, attr) == Node("Attribute", attr, PyNone, <<value>>)
BinOp(l, op, r) == Node("BinOp", op, PyNone, <<l, r>>)
Subscript(value, key) == Node("Subscript", "", PyNone, <<value, key>>)
Call(f, arg) == Node("Call", "", PyNone, <<f, arg>>)
Call2(f, a, b) == Node("Call", "", PyNone, <<f, a, b>>)
Assign(target, value) == Node("Assign", "", PyNone, <<Name(target), value>>)
AssignItem(target, value) == Node("Assign", "", PyNone, <<target, value>>)
ExprStmt(value) == Node("Expr", "", PyNone, <<value>>)
Pass == Node("Pass", "", PyNone, <<>>)
Import(module) == Node("Import", module, PyNone, <<>>)
ExceptHandler(body) == Node("ExceptHandler", "", PyNone, body)
Try(body, h) == Node("Try", "", PyNone, body \o <<h>>)
While(test, body) == Node("While", "", PyNone, <<test>> \o body)
Module(body) == Node("Module", "", PyNone, body)

FORBIDDEN_NAMES ==
    {"__import__", "eval", "exec", "compile", "open", "input",
     "breakpoint", "help", "dir", "globals", "locals", "vars",
     "setattr", "delattr", "__dict__", "__class__", "__bases__",
     "__subclasses__", "__code__", "__closure__"}

ImportError == "Import statements are not allowed in extensions"
PrivateError == "Access to private attributes is not allowed"
NameErrorText(id) == "Access to '" \o id \o "' is not allowed"

RECURSIVE Visit(_), VisitKids(_, _)

\* NodeVisitor.generic_visit: the children in order, the first error wins
VisitKids(kids, i) ==
    IF i > Len(kids) THEN ""
    ELSE LET e == Visit(kids[i])
         IN  IF e # "" THEN e ELSE VisitKids(kids, i + 1)

\* visit_Name
VisitName(node) ==
    IF node.id \in FORBIDDEN_NAMES THEN NameErrorText(node.id)
    ELSE VisitKids(node.kids, 1)

\* visit_Attribute without its startswith('_') test
VisitAttributeDenyListOnly(node) ==
    IF node.id \in FORBIDDEN_NAMES THEN NameErrorText(node.id)
    ELSE VisitKids(node.kids, 1)

\* visit_Attribute
VisitAttribute(node) ==
    IF StartsWith(node.id, "_") THEN PrivateError
    ELSE IF node.id \in FORBIDDEN_NAMES THEN NameErrorText(node.id)
    ELSE VisitKids(node.kids, 1)

\* visit_Import with its raise lost
VisitImportPasses(node) == ""

\* visit_Import and visit_ImportFrom
VisitImport(node) == ImportError

\* ExtensionValidator().visit(node): "" when accepted, else the ValueError's text
Visit(node) ==
    CASE node.kind \in {"Import", "ImportFrom"} -> VisitImport(node)
      [] node.kind = "Name" -> VisitName(node)
      [] node.kind = "Attribute" -> VisitAttribute(node)
      [] OTHER -> VisitKids(node.kids, 1)

(***************************************************************************)
(* The code strings the host submits, and ast.parse on them.               *)
(***************************************************************************)
SrcArith == "result = 1 + 2"
SrcImport == "import os"
SrcDenied == "result = eval"
SrcPrivate == "result = context.__class__"
SrcLoop == "while True: pass"
SrcGuardedLoop == "while True:\n  try: pass\n  except: pass"
SrcPrint == "print('hi')\nprint('a' * " \o IntStr(PrintLimit + Excess) \o ")\nresult = 'ok'"
SrcDivide == "result = 1 / 0"
SrcBroken == "result = ("
SrcAppend == "context['items'].append(1)\nresult = len(context['items'])"
SrcRebind == "context['n'] = 5\nresult = context['n']"
SrcUnderscore == "result = __builtins__['eval']"
SrcGetattr == "result = getattr(context, '__class__')"
SrcHidden == "result = context._hidden"
SrcDeniedAttr == "result = context.vars"

Snippets ==
    {SrcArith, SrcImport, SrcDenied, SrcPrivate, SrcLoop, SrcGuardedLoop,
     SrcPrint, SrcDivide, SrcBroken}

\* the snippets a host submits twice
RepeatSnippets ==
    {SrcArith, SrcLoop, SrcAppend, SrcRebind, SrcUnderscore, SrcGetattr,
     SrcHidden, SrcDenied, SrcDeniedAttr, SrcPrivate}

\* context['key']
ContextItem(key) == Subscript(Name("context"), Const(PyStr(key)))

\* ast.parse raises SyntaxError
ParseFails(src) == src = SrcBroken

\* ast.parse(code): the Module node
Parse(src) ==
    CASE src = SrcArith ->
           Module(<<Assign("result", BinOp(Const(PyInt(1)), "Add", Const(PyInt(2))))>>)
      [] src = SrcImport -> Module(<<Import("os")>>)
      [] src = SrcDenied -> Module(<<Assign("result", Name("eval"))>>)
      [] src = SrcPrivate ->
           Module(<<Assign("result", Attribute(Name("context"), "__class__"))>>)
      [] src = SrcLoop -> Module(<<While(Const(PyBool(TRUE)), <<Pass>>)>>)
      [] src = SrcGuardedLoop ->
           Module(<<While(Const(PyBool(TRUE)),
                          <<Try(<<Pass>>, ExceptHandler(<<Pass>>))>>)>>)
      [] src = SrcPrint ->
           Module(<<ExprStmt(Call(Name("print"), Const(PyStr("hi")))),
                    ExprStmt(Call(Name("print"),
                        BinOp(Const(PyStr("a")), "Mult", Const(PyInt(PrintLimit + Excess))))),
                    Assign("result", Const(PyStr("ok")))>>)
      [] src = SrcDivide ->
           Module(<<Assign("result", BinOp(Const(PyInt(1)), "Div", Const(PyInt(0))))>>)
      [] src = SrcAppend ->
           Module(<<ExprStmt(Call(Attribute(ContextItem("items"), "append"),
                                  Const(PyInt(1)))),
                    Assign("result", Call(Name("len"), ContextItem("items")))>>)
      [] src = SrcRebind ->
           Module(<<AssignItem(ContextItem("n"), Const(PyInt(5))),
                    Assign("result", ContextItem("n"))>>)
      [] src = SrcUnderscore ->
           Module(<<Assign("result",
                       Subscript(Name("__builtins__"), Const(PyStr("eval"))))>>)
      [] src = SrcGetattr ->
           Module(<<Assign("result", Call2(Name("getattr"), Name("context"),
                                           Const(PyStr("__class__"))))>>)
      [] src = SrcHidden ->
           Module(<<Assign("result", Attribute(Name("context"), "_hidden"))>>)
      [] src = SrcDeniedAttr ->
           Module(<<Assign("result", Attribute(Name("context"), "vars"))>>)
      [] OTHER -> Module(<<>>)

RECURSIVE Unserializable(_)
\* the type json.dump names in its TypeError ("" when the value is accepted)
Unserializable(v) ==
    CASE v.t \in {"NoneType", "int", "str", "bool"} -> ""
      [] v.t = "list" ->
           IF \A i \in DOMAIN v.l : JSONSerializable(v.l[i]) THEN ""
           ELSE Unserializable(v.l[CHOOSE i \in DOMAIN v.l : ~JSONSerializable(v.l[i])])
      [] v.t = "dict" ->
           IF \A k \in DOMAIN v.d : JSONSerializable(v.d[k]) THEN ""
           ELSE Unserializable(v.d[CHOOSE k \in DOMAIN v.d : ~JSONSerializable(v.d[k])])
      [] OTHER -> v.t

\* The contexts the host passes.
CtxPlain == PyDict([k \in {"n"} |-> PyInt(2)])
CtxWithSet == PyDict([k \in {"seen"} |-> PySet])
CtxNested == PyDict([k \in {"items", "n"} |-> IF k = "items" THEN PyList(<<>>) ELSE PyInt(2)])
Contexts == {CtxPlain, CtxWithSet, PyNone}
\* the contexts of a host that submits a snippet twice
RepeatContexts == {CtxNested}

RECURSIVE JSONRoundTrip(_)
\* json.load of what json.dump wrote, for a value json.dump accepts
JSONRoundTrip(v) ==
    CASE v.t = "list" -> PyList([i \in DOMAIN v.l |-> JSONRoundTrip(v.l[i])])
      [] v.t = "dict" -> PyDict([k \in DOMAIN v.d |-> JSONRoundTrip(v.d[k])])
      [] OTHER -> v

\* the value has a copy() method (context.copy() in _execute_inline)
HasCopy(v) == v.t \in {"dict", "list", "set"}

(***************************************************************************)
(* Running a snippet: exec(compile(tree), namespace).                      *)
(* The namespace is ns = [result, context, builtins].  An evaluation gives *)
(* [err, val, out, priv, ctx, touched]: err the text of the exception      *)
(* raised ("" when none), val the value, out the lines print was given,    *)
(* priv the underscore attributes read, ctx namespace['context'] after the *)
(* evaluation, touched the keys of ctx whose value (a list) was changed in *)
(* place.  Snippets of the model do not rebind a key and then change its   *)
(* value in place.                                                         *)
(***************************************************************************)
Value(v, ns) ==
    [err |-> "", val |-> v, out |-> <<>>, priv |-> {}, ctx |-> ns.context,
     touched |-> {}]
Raises(text, ns) ==
    [err |-> text, val |-> PyNone, out |-> <<>>, priv |-> {}, ctx |-> ns.context,
     touched |-> {}]

\* the effects of evaluation a added to those of r, which came after it
After(a, r) ==
    [r EXCEPT !.out = a.out \o r.out, !.priv = a.priv \cup r.priv,
              !.touched = a.touched \cup r.touched]

\* the namespace as evaluation a left it
NsAfter(a, ns) == [ns EXCEPT !.context = a.ctx]

NotCallable == "'NoneType' object is not callable"

\* the object a builtins entry of the given kind holds
BuiltinValue(kind, name) ==
    IF kind = "None" THEN PyNone ELSE [t |-> kind, name |-> name]

\* a binary operator on two values
ApplyBinOp(op, a, b, ns) ==
    CASE op = "Add" /\ a.t = "int" /\ b.t = "int" -> Value(PyInt(a.i + b.i), ns)
      [] op = "Mult" /\ a.t = "str" /\ b.t = "int" -> Value(PyStr(Repeat(a.s, b.i)), ns)
      [] op = "Div" /\ a.t = "int" /\ b.t = "int" ->
           IF b.i = 0 THEN Raises("division by zero", ns)
           ELSE Value(PyInt(a.i \div b.i), ns)
      [] OTHER -> Raises("unsupported operand type(s)", ns)

\* getattr(v, attr) and v.attr: every object has __class__, a list has append
GetAttr(v, attr, ns) ==
    IF attr = "__class__"
    THEN [Value([t |-> "class", name |-> v.t], ns) EXCEPT !.priv = {attr}]
    ELSE IF attr = "append" /\ v.t = "list"
    THEN Value([t |-> "builtin_method", name |-> attr], ns)
    ELSE Raises("'" \o v.t \o "' object has no attribute '" \o attr \o "'", ns)

\* v[k]
GetItem(v, k, ns) ==
    CASE v.t = "dict" /\ k.t = "str" ->
           IF k.s \in DOMAIN v.d THEN Value(v.d[k.s], ns)
           ELSE Raises("'" \o k.s \o "'", ns)
      [] v.t = "list" /\ k.t = "int" ->
           IF k.i + 1 \in DOMAIN v.l THEN Value(v.l[k.i + 1], ns)
           ELSE Raises("list index out of range", ns)
      [] OTHER -> Raises("'" \o v.t \o "' object is not subscriptable", ns)

\* len(v)
LenOf(v, ns) ==
    CASE v.t = "list" -> Value(PyInt(Len(v.l)), ns)
      [] v.t = "str" -> Value(PyInt(Len(v.s)), ns)
      [] v.t = "dict" -> Value(PyInt(Cardinality(DOMAIN v.d)), ns)
      [] OTHER -> Raises("object of type '" \o v.t \o "' has no len()", ns)

\* f(args) for the callables of the namespace
Apply(f, args, ns) ==
    CASE f.t = "NoneType" -> Raises(NotCallable, ns)
      \* capture_print: one line, the arguments' str joined
      [] f.t = "function" ->
           [Value(PyNone, ns) EXCEPT
               !.out = <<JoinWith(" ", [i \in DOMAIN args |-> Str(args[i])])>>]
      \* _safe_print writes to the process's own standard output
      [] f.t = "bound_method" -> Value(PyNone, ns)
      [] f.t = "builtin_function" /\ f.name = "len" /\ Len(args) = 1 ->
           LenOf(args[1], ns)
      [] f.t = "builtin_function" /\ f.name = "getattr" /\ Len(args) = 2 ->
           IF args[2].t = "str" THEN GetAttr(args[1], args[2].s, ns)
           ELSE Raises("attribute name must be string", ns)
      [] OTHER -> Value(PyObject, ns)

\* the key k when e is context['k'], "" otherwise
Place(e) ==
    IF /\ e.kind = "Subscript"
       /\ e.kids[1].kind = "Name" /\ e.kids[1].id = "context"
       /\ e.kids[2].kind = "Constant" /\ e.kids[2].val.t = "str"
    THEN e.kids[2].val.s
    ELSE ""

\* the dict d with d[k] = v
SetItem(d, k, v) ==
    PyDict([x \in DOMAIN d.d \cup {k} |-> IF x = k THEN v ELSE d.d[x]])

\* e is <expression>.append(<argument>)
IsAppend(e) ==
    /\ e.kind = "Call" /\ Len(e.kids) = 2
    /\ e.kids[1].kind = "Attribute" /\ e.kids[1].id = "append"

RECURSIVE Eval(_, _)
\* the value of an expression in namespace ns
Eval(e, ns) ==
    CASE e.kind = "Constant" -> Value(e.val, ns)
      [] e.kind = "Name" ->
           IF e.id = "result" THEN Value(ns.result, ns)
           ELSE IF e.id = "context" THEN Value(ns.context, ns)
           ELSE IF e.id = "__builtins__"
                THEN Value(PyDict([n \in DOMAIN ns.builtins |->
                                      BuiltinValue(ns.builtins[n], n)]), ns)
           ELSE IF e.id \in DOMAIN ns.builtins
                THEN Value(BuiltinValue(ns.builtins[e.id], e.id), ns)
           ELSE Raises("name '" \o e.id \o "' is not defined", ns)
      [] e.kind = "Attribute" ->
           LET v == Eval(e.kids[1], ns)
           IN  IF v.err # "" THEN v
               ELSE After(v, GetAttr(v.val, e.id, NsAfter(v, ns)))
      [] e.kind = "Subscript" ->
           LET v == Eval(e.kids[1], ns)
               k == Eval(e.kids[2], NsAfter(v, ns))
           IN  IF v.err # "" THEN v
               ELSE IF k.err # "" THEN After(v, k)
               ELSE After(v, After(k, GetItem(v.val, k.val, NsAfter(k, ns))))
      [] e.kind = "BinOp" ->
           LET a == Eval(e.kids[1], ns)
               b == Eval(e.kids[2], NsAfter(a, ns))
           IN  IF a.err # "" THEN a
               ELSE IF b.err # "" THEN After(a, b)
               ELSE After(a, After(b, ApplyBinOp(e.id, a.val, b.val, NsAfter(b, ns))))
      [] IsAppend(e) ->
           LET target == e.kids[1].kids[1]
               l == Eval(target, ns)
               a == Eval(e.kids[2], NsAfter(l, ns))
               after == NsAfter(a, ns)
           IN  IF l.err # "" THEN l
               ELSE IF l.val.t # "list"
               THEN After(l, GetAttr(l.val, "append", NsAfter(l, ns)))
               ELSE IF a.err # "" THEN After(l, a)
               ELSE IF Place(target) = "" \/ after.context.t # "dict"
               THEN After(l, After(a, Value(PyNone, after)))
               ELSE After(l, After(a,
                      [Value(PyNone, after) EXCEPT
                          !.ctx = SetItem(after.context, Place(target),
                                          PyList(Append(l.val.l, a.val))),
                          !.touched = {Place(target)}]))
      [] e.kind = "Call" /\ ~IsAppend(e) ->
           LET f == Eval(e.kids[1], ns)
               a == Eval(e.kids[2], NsAfter(f, ns))
               b == IF Len(e.kids) = 3 THEN Eval(e.kids[3], NsAfter(a, ns))
                    ELSE Value(PyNone, NsAfter(a, ns))
               args == IF Len(e.kids) = 3 THEN <<a.val, b.val>> ELSE <<a.val>>
           IN  IF f.err # "" THEN f
               ELSE IF a.err # "" THEN After(f, a)
               ELSE IF b.err # "" THEN After(f, After(a, b))
               ELSE After(f, After(a, After(b, Apply(f.val, args, NsAfter(b, ns)))))
      [] OTHER -> Raises("unsupported expression", ns)

\* a while loop whose body is a try with a bare except, which catches whatever
\* a signal handler raises in it
LoopCatches(stmt) ==
    /\ stmt.kind = "While"
    /\ Len(stmt.kids) >= 2
    /\ stmt.kids[2].kind = "Try"

\* a statement without effect on the namespace
NoEffect(ns) ==
    [err |-> "", out |-> <<>>, loops |-> FALSE, result |-> ns.result,
     priv |-> {}, ctx |-> ns.context, touched |-> {}]

\* One statement: [err, result, out, loops, priv, ctx, touched].
ExecStmt(stmt, ns) ==
    CASE stmt.kind = "Assign" ->
           LET v == Eval(stmt.kids[2], ns)
               target == stmt.kids[1]
               item == target.kind = "Subscript" /\ Place(target) # ""
               bad == v.err = "" /\ item /\ v.ctx.t # "dict"
           IN  [err |-> IF bad THEN "'" \o v.ctx.t \o "' object does not support item assignment"
                        ELSE v.err,
                out |-> v.out, loops |-> FALSE, priv |-> v.priv, touched |-> v.touched,
                result |-> IF v.err = "" /\ target.kind = "Name" /\ target.id = "result"
                           THEN v.val ELSE ns.result,
                ctx |-> IF v.err = "" /\ item /\ ~bad
                        THEN SetItem(v.ctx, Place(target), v.val) ELSE v.ctx]
      [] stmt.kind = "Expr" ->
           LET v == Eval(stmt.kids[1], ns)
           IN  [err |-> v.err, out |-> v.out, loops |-> FALSE, result |-> ns.result,
                priv |-> v.priv, ctx |-> v.ctx, touched |-> v.touched]
      [] stmt.kind \in {"Import", "ImportFrom"} ->
           \* the import statement calls __builtins__['__import__'], which is None
           [NoEffect(ns) EXCEPT !.err = NotCallable]
      [] stmt.kind = "While" -> [NoEffect(ns) EXCEPT !.loops = TRUE]
      [] OTHER -> NoEffect(ns)

(***************************************************************************)
(* Process resource limits: setrlimit(2) as resource.setrlimit reports it. *)
(***************************************************************************)
LimitNames == {"data", "fsize", "nofile"}
\* the order in which _resource_limits lowers, and so saves, the limits
LimitOrder == <<"data", "fsize", "nofile">>

\* the (soft, hard) pair _resource_limits sets for a limit
Ceiling(name) ==
    CASE name = "data" ->
           <<MEMORY_LIMIT_MB * 1024 * 1024, MEMORY_LIMIT_MB * 1024 * 1024>>
      [] name = "fsize" ->
           <<MAX_FILE_SIZE_MB * 1024 * 1024, MAX_FILE_SIZE_MB * 1024 * 1024>>
      [] name = "nofile" -> <<MAX_OPEN_FILES, MAX_OPEN_FILES>>

\* a <= b among limit values, RLIM_INFINITY the greatest
LimLE(a, b) == b = RLIM_INFINITY \/ (a # RLIM_INFINITY /\ a <= b)

\* resource.setrlimit(name, new): the ValueError's text, "" when it succeeds.
\* The soft limit may not exceed the hard one; only a privileged process may
\* raise its hard limit.
SetrlimitError(cur, new, priv) ==
    IF ~LimLE(new[1], new[2]) THEN "current limit exceeds maximum limit"
    ELSE IF ~LimLE(new[2], cur[2]) /\ ~priv THEN "not allowed to raise maximum limit"
    ELSE ""

RECURSIVE LowerFromUnchecked(_, _, _, _)
\* the lowering with setrlimit's error swallowed: the next limit is tried
LowerFromUnchecked(rl, saved, i, priv) ==
    IF i > Len(LimitOrder) THEN [rl |-> rl, saved |-> saved, err |-> ""]
    ELSE LET name == LimitOrder[i]
             kept == Append(saved, <<name, rl[name]>>)
             err == SetrlimitError(rl[name], Ceiling(name), priv)
         IN  LowerFromUnchecked(
                 IF err # "" THEN rl ELSE [rl EXCEPT ![name] = Ceiling(name)],
                 kept, i + 1, priv)

RECURSIVE LowerFrom(_, _, _, _)
\* _resource_limits before the yield, from the i-th limit on
LowerFrom(rl, saved, i, priv) ==
    IF i > Len(LimitOrder) THEN [rl |-> rl, saved |-> saved, err |-> ""]
    ELSE LET name == LimitOrder[i]
             kept == Append(saved, <<name, rl[name]>>)
             err == SetrlimitError(rl[name], Ceiling(name), priv)
         IN  IF err # "" THEN [rl |-> rl, saved |-> kept, err |-> err]
             ELSE LowerFrom([rl EXCEPT ![name] = Ceiling(name)], kept, i + 1, priv)

RECURSIVE RestoreFrom(_, _, _, _)
\* _resource_limits' finally: the saved limits in order; an error ends the loop
RestoreFrom(rl, saved, i, priv) ==
    IF i > Len(saved) THEN [rl |-> rl, err |-> ""]
    ELSE LET name == saved[i][1]
             err == SetrlimitError(rl[name], saved[i][2], priv)
         IN  IF err # "" THEN [rl |-> rl, err |-> err]
             ELSE RestoreFrom([rl EXCEPT ![name] = saved[i][2]], saved, i + 1, priv)

\* _resource_limits up to its yield
EnterLimits(plat, rl, priv) ==
    IF plat # "win32" THEN LowerFrom(rl, <<>>, 1, priv)
    ELSE [rl |-> rl, saved |-> <<>>, err |-> ""]

\* _resource_limits after its yield
ExitLimits(rl, saved, priv) == RestoreFrom(rl, saved, 1, priv)

\* a dispatch that never isolates
NeverSubprocess(plat) == FALSE

\* _should_use_subprocess
ShouldUseSubprocess(plat) == plat # "win32"

\* hasattr(signal, 'SIGALRM')
HasSIGALRM(plat) == plat # "win32"

(***************************************************************************)
(* The isolated path: the child's environment and the wrapper script.      *)
(***************************************************************************)
SensitiveWords == {"KEY", "TOKEN", "SECRET", "PASSWORD", "API", "CREDENTIAL"}

\* the test without key.upper()
IsSensitiveAsSpelled(key) == \E w \in SensitiveWords : Contains(key, w)

\* the test of the loop that removes sensitive variables
IsSensitive(key) == \E w \in SensitiveWords : Contains(Upper(key), w)

\* env as _execute_subprocess prepares it
ChildEnv(env, tmp) ==
    LET set == [k \in DOMAIN env \cup {"TMPDIR", "HOME", "PATH"} |->
                   IF k \in {"TMPDIR", "HOME"} THEN tmp
                   ELSE IF k = "PATH" THEN ""
                   ELSE env[k]]
    IN  [k \in {x \in DOMAIN set : ~IsSensitive(x)} |-> set[k]]

\* repr(value) is a Python expression
ReprIsExpression(kind) == kind = "None"

\* the generated script compiles: its line "safe_builtins = {repr(...)}" is
\* source text only if every value's repr is
WrapperCompiles ==
    \A n \in DOMAIN safe_builtins : ReprIsExpression(safe_builtins[n])

WrapperSyntaxError == "SyntaxError: invalid syntax"

\* what the child's interpreter writes to stderr when the script does not
\* compile: the script's path, the place of the error, the error
WrapperStderr(tmp) ==
    "  File \"" \o tmp \o "/extension.py\", line 19\n" \o WrapperSyntaxError \o "\n"

\* a cleanup that removes the files written and leaves the directory
CleanupFilesOnly(files, tmp) == {f \in files : f = tmp \/ ~StartsWith(f, tmp)}

\* tempfile.TemporaryDirectory's cleanup: the directory and what is in it
Cleanup(files, tmp) == {f \in files : ~StartsWith(f, tmp)}

\* the scratch directory of the n-th call
ScratchDir(n) == "/tmp/tmp" \o IntStr(n)

(***************************************************************************)
(* Exceptions, outcomes and the child process record.                      *)
(***************************************************************************)
NoExc == [type |-> "", text |-> ""]
Exc(type, text) == [type |-> type, text |-> text]

NoOutcome == [kind |-> "none", success |-> FALSE, result |-> PyNone, text |-> ""]
\* a tuple whose first component is True whatever happened
ReturnedAsSuccess(success, result, text) ==
    [kind |-> "returned", success |-> TRUE, result |-> result, text |-> text]

\* the tuple a call returns
Returned(success, result, text) ==
    [kind |-> "returned", success |-> success, result |-> result, text |-> text]
\* an exception that leaves the call
Escaped(type, text) ==
    [kind |-> "raised", success |-> FALSE, result |-> PyNone, text |-> type \o ": " \o text]

StdoutEmpty == [kind |-> "empty", result |-> PyNone, output |-> "", error |-> ""]
\* print(json.dumps({'result': ..., 'output': ...}))
StdoutResult(r, o) == [kind |-> "result", result |-> r, output |-> o, error |-> ""]
\* print(json.dumps({"error": ...}))
StdoutError(e) == [kind |-> "error", result |-> PyNone, output |-> "", error |-> e]

NoChild ==
    [state |-> "none", env |-> <<>>, cwd |-> "", rlimits |-> <<>>, alarm |-> FALSE,
     returncode |-> 0, stdout |-> StdoutEmpty, stderr |-> ""]

InlineTimeoutText ==
    "Extension execution exceeded " \o IntStr(EXECUTION_TIMEOUT_SECONDS) \o "s limit"
SubprocessTimeoutText ==
    "Extension execution timeout (" \o IntStr(EXECUTION_TIMEOUT_SECONDS) \o "s)"

NoSetup == [limits_lowered |-> FALSE, alarm_installed |-> FALSE]

\* what a caller keeps of a call: its arguments (the context object as the call
\* left it), what it gave, and whether the deadline expired in it
NoPrev ==
    [entry |-> "", code |-> "", context |-> PyNone, outcome |-> NoOutcome,
     expired |-> FALSE]

(***************************************************************************)
(* Callers that share one sandbox object, each in its own thread.          *)
(***************************************************************************)
\* How many threads call the sandbox.
NumThreads == 2

Threads == 1..NumThreads

\* a thread's frame of execute_extension: where it is, the value of
\* self.execution_count it has loaded, its scratch directory and what the
\* call gave
NoFrame ==
    [pc |-> "idle", code |-> "", loaded |-> 0, tmpdir |-> "", calls |-> 0,
     outcome |-> NoOutcome]

NoThreads == [t \in Threads |-> NoFrame]

\* tempfile.TemporaryDirectory(): a name that no existing entry has
FreshScratch(files) ==
    ScratchDir(CHOOSE k \in 1..(Cardinality(files) + 1) :
                   /\ ScratchDir(k) \notin files
                   /\ \A j \in 1..(k - 1) : ScratchDir(j) \in files)

(***************************************************************************)
(* TaskStatus, and the tables TaskManager and PhaseManager work on.        *)
(***************************************************************************)
\* How many tasks are created.
MaxTasks == 2
\* How many calls the host makes to TaskManager and PhaseManager.
MaxOps == 5

\* SQL NULL, Python None
NULL == "NULL"
\* a value of datetime.datetime.now() or CURRENT_TIMESTAMP
Timestamp == "timestamp"

TaskStatuses == {"pending", "in_progress", "review", "completed"}

\* a table that lets every status follow every other
TransitionsUnchecked(current, new) == TRUE

\* TaskStatus.can_transition_to
can_transition_to(current, new) ==
    new \in (CASE current = "pending" -> {"in_progress"}
               [] current = "in_progress" -> {"review", "pending"}
               [] current = "review" -> {"completed", "pending"}
               [] current = "completed" -> {})

DEFAULT_PHASE_TITLE == "Initial Development"

\* _migration_v1: INSERT OR IGNORE INTO phases (number, title, status)
InitialPhases ==
    <<[number |-> 1, title |-> DEFAULT_PHASE_TITLE, status |-> "active"]>>

\* INSERT INTO tasks (description, status, phase_id, ...) VALUES (?, 'pending', ?, ...)
NewTask(phase_id) ==
    [status |-> "pending", phase_id |-> phase_id, started_at |-> NULL,
     completed_at |-> NULL, reviewed_at |-> NULL, review_comment |-> NULL,
     review_feedback |-> NULL, commit_hash |-> NULL]

\* no call has been made
NoCall == [op |-> "", error |-> ""]

\* the ids of the phases with status 'active'
ActivePhases(ph) == {i \in DOMAIN ph : ph[i].status = "active"}

\* SELECT ... FROM phases WHERE status = 'active' ORDER BY number DESC LIMIT 1:
\* the row's id, or 0 when there is no such row
CurrentPhase(ph) ==
    IF ActivePhases(ph) = {} THEN 0
    ELSE CHOOSE i \in ActivePhases(ph) :
             \A j \in ActivePhases(ph) : ph[j].number <= ph[i].number

\* INSERT INTO phases: title is NOT NULL, number is UNIQUE
InsertPhase(ph, number, title) ==
    IF title = NULL
    THEN [phases |-> ph, id |-> 0,
          error |-> "IntegrityError: NOT NULL constraint failed: phases.title"]
    ELSE IF \E i \in DOMAIN ph : ph[i].number = number
    THEN [phases |-> ph, id |-> 0,
          error |-> "IntegrityError: UNIQUE constraint failed: phases.number"]
    ELSE [phases |-> Append(ph, [number |-> number, title |-> title, status |-> "active"]),
          id |-> Len(ph) + 1, error |-> ""]

\* TaskManager._get_current_phase_id: the active phase, or a default phase
\* made on the spot
GetCurrentPhaseId(ph) ==
    IF CurrentPhase(ph) # 0
    THEN [phases |-> ph, id |-> CurrentPhase(ph), error |-> ""]
    ELSE InsertPhase(ph, 1, DEFAULT_PHASE_TITLE)

\* TaskManager.list_tasks(status=...): the ids
ListByStatus(ts, status) == {i \in DOMAIN ts : ts[i].status = status}

\* TaskManager.list_tasks(phase_id=...): the ids
ListByPhase(ts, phase_id) == {i \in DOMAIN ts : ts[i].phase_id = phase_id}

(***************************************************************************)
(* WizardStateManager and table wizard_states.                             *)
(***************************************************************************)
\* How many user contexts the host has.
NumContexts == 6
\* How many rows table wizard_states gets.
MaxSessions == 7
\* How many times the clock advances.
MaxTicks == 2
\* The hours between two readings of the clock.
TickHours == 13
\* datetime.timedelta(hours=24)
SessionHours == 24
\* find_resumable_sessions' LIMIT
ResumeLimit == 5

WizardNames == {"setup"}

\* user_context: the keys _contexts_match looks at
important_keys == {"phase", "user_role", "project_id"}
UserContext(p) == [k \in {"phase"} |-> p]
UserContexts == {UserContext(p) : p \in 1..NumContexts}

\* WizardStateManager._contexts_match
ContextsMatch(saved_context, new_context) ==
    \A key \in important_keys :
        (key \in DOMAIN saved_context /\ key \in DOMAIN new_context)
            => saved_context[key] = new_context[key]

\* the state start_wizard pickles into state_data
InitialState(wizard_name, user_context) ==
    [wizard_name |-> wizard_name, user_context |-> user_context,
     current_step |-> 0]

\* INSERT INTO wizard_states (session_id, wizard_name, current_step,
\* state_data, expires_at): the row, with its column defaults
NewSession(session_id, wizard_name, user_context, at) ==
    [session_id |-> session_id, wizard_name |-> wizard_name,
     state_data |-> InitialState(wizard_name, user_context),
     created_at |-> at, updated_at |-> at, expires_at |-> at + SessionHours,
     completed |-> FALSE]

\* the value a SELECT gives for a column declared TIMESTAMP: the connection is
\* opened with detect_types=PARSE_DECLTYPES, so the text is converted
SelectTimestamp(hours) == [t |-> "datetime", hours |-> hours]

\* datetime.datetime.fromisoformat(value): "" or the TypeError's text
FromIsoFormatError(value) ==
    IF value.t = "str" THEN "" ELSE "fromisoformat: argument must be str"

\* the rows find_resumable_sessions' WHERE keeps: indices into the table
Resumable(rows, wizard_name, at) ==
    {i \in DOMAIN rows :
        /\ rows[i].wizard_name = wizard_name
        /\ ~rows[i].completed
        /\ rows[i].expires_at > at}

\* ORDER BY updated_at DESC LIMIT n: a set of n of the rows (all when there are
\* fewer) that no row left out is newer than; rows of equal updated_at come in
\* an order the query does not fix
IsNewest(S, from, rows, n) ==
    /\ S \subseteq from
    /\ Cardinality(S) = (IF Cardinality(from) < n THEN Cardinality(from) ELSE n)
    /\ \A i \in S, j \in from \ S : rows[j].updated_at <= rows[i].updated_at

(***************************************************************************)
(* The host: its environment and the initial state.                        *)
(***************************************************************************)
\* variables a caller's environment may hold
EnvPool ==
    [k \in {"PATH", "LANG", "GitHub_Token"} |->
        IF k = "PATH" THEN "/usr/bin" ELSE IF k = "LANG" THEN "C" ELSE "s3cr3t"]
HostEnvironments == {[k \in S |-> EnvPool[k]] : S \in SUBSET DOMAIN EnvPool}

\* limits a host process may start with: unlimited, or a hard limit below the
\* sandbox's ceilings
HostLimits == {<<RLIM_INFINITY, RLIM_INFINITY>>, <<LowLimit, LowLimit>>}

Init ==
    /\ platform \in {"linux", "win32"}
    /\ privileged \in BOOLEAN
    /\ rlimits \in [LimitNames -> HostLimits]
    /\ environ \in HostEnvironments
    /\ execution_count = 0
    /\ fs = {}
    /\ calls = 0
    /\ pc = "start"
    /\ entry = ""
    /\ code = ""
    /\ context = PyNone
    /\ tmpdir = ""
    /\ child = NoChild
    /\ original_limits = <<>>
    /\ alarm_armed = FALSE
    /\ handler = "SIG_DFL"
    /\ old_handler = ""
    /\ elapsed = 0
    /\ ip = 0
    /\ ns_result = PyNone
    /\ output_buffer = <<>>
    /\ exc = NoExc
    /\ outcome = NoOutcome
    /\ verdict = "none"
    /\ executed = FALSE
    /\ setup_at_verdict = NoSetup
    /\ call_limits = rlimits
    /\ io_fault = FALSE
    /\ call_context = PyNone
    /\ ns_builtins = <<>>
    /\ ns_context = PyNone
    /\ private_reads = {}
    /\ limits_error = ""
    /\ prev = NoPrev
    /\ strategy = {}
    /\ threads = NoThreads
    /\ tasks = <<>>
    /\ phases = InitialPhases
    /\ audit_log = <<>>
    /\ tm_call = NoCall
    /\ wizard_states = <<>>
    /\ recovery_cache = <<>>
    /\ now = 0
    /\ wz_call = NoCall

\* what one invocation keeps, as a group
callArgs == <<entry, code, call_limits, call_context, strategy>>
callVars == <<callArgs, context, io_fault>>
inlineVars == <<original_limits, old_handler, verdict, setup_at_verdict, limits_error>>
nsVars == <<ns_builtins, ns_context>>
runVars == <<ip, ns_result, output_buffer, executed, private_reads, nsVars>>
\* the program's other objects, which the sandbox never touches
taskVars == <<tasks, phases, audit_log, tm_call>>
wizardVars == <<wizard_states, recovery_cache, now, wz_call>>
hostVars == <<platform, privileged, environ, prev, threads, taskVars, wizardVars>>
\* what the sandbox keeps apart from the counters and the files it shares
frameVars ==
    <<platform, privileged, environ, prev, rlimits, pc, tmpdir, child, alarm_armed,
      handler, elapsed, exc, outcome, callVars, inlineVars, runVars>>

\* The module's imports run and the sandbox is constructed.  "import resource"
\* finds no such module on win32.
LoadModule ==
    /\ pc = "start"
    /\ pc' = IF platform = "win32" THEN "import_failed" ELSE "idle"
    /\ UNCHANGED <<hostVars, rlimits, execution_count, fs, calls, callVars, tmpdir,
                   child, inlineVars, alarm_armed, handler, elapsed, runVars, exc,
                   outcome>>

\* execute_extension(code, context), up to the strategy's first statement
\* (for the isolated path: the scratch directory is made)
ExecuteExtension(c, ctx) ==
    /\ pc = "idle"
    /\ calls < MaxCalls
    /\ calls' = calls + 1
    /\ execution_count' = execution_count + 1
    /\ entry' = "execute_extension"
    /\ code' = c
    /\ context' = ctx
    /\ call_context' = ctx
    /\ call_limits' = rlimits
    /\ io_fault' = FALSE
    /\ IF ShouldUseSubprocess(platform)
       THEN /\ strategy' = {"_execute_subprocess"}
            /\ tmpdir' = ScratchDir(calls + 1)
            /\ fs' = fs \cup {ScratchDir(calls + 1)}
            /\ pc' = "sub_write_script"
       ELSE /\ strategy' = {"_execute_inline"}
            /\ pc' = "inl_setup"
            /\ UNCHANGED <<tmpdir, fs>>
    /\ UNCHANGED <<hostVars, rlimits, child, inlineVars, alarm_armed, handler,
                   elapsed, runVars, exc, outcome>>

\* _execute_inline(code, context) called directly
ExecuteInline(c, ctx) ==
    /\ pc = "idle"
    /\ calls < MaxCalls
    /\ calls' = calls + 1
    /\ entry' = "_execute_inline"
    /\ code' = c
    /\ context' = ctx
    /\ call_context' = ctx
    /\ call_limits' = rlimits
    /\ io_fault' = FALSE
    /\ strategy' = {"_execute_inline"}
    /\ pc' = "inl_setup"
    /\ UNCHANGED <<hostVars, rlimits, execution_count, fs, tmpdir, child, inlineVars,
                   alarm_armed, handler, elapsed, runVars, exc, outcome>>

(***************************************************************************)
(* The in-process path: _execute_inline.                                   *)
(***************************************************************************)
\* Lines 1716-1731: the timer, the output buffer and the namespace.  A context
\* without copy() raises before the try block is entered.
InlineSetup ==
    /\ pc = "inl_setup"
    /\ IF HasSIGALRM(platform)
       THEN /\ old_handler' = handler
            /\ handler' = "_timeout_handler"
            /\ alarm_armed' = TRUE
            /\ elapsed' = 0
       ELSE UNCHANGED <<old_handler, handler, alarm_armed, elapsed>>
    /\ output_buffer' = <<>>
    /\ ns_result' = PyNone
    /\ IF HasCopy(context)
       THEN /\ pc' = "inl_limits"
            /\ ns_builtins' = [safe_builtins EXCEPT !["print"] = "function"]
            /\ ns_context' = context
            /\ UNCHANGED outcome
       ELSE /\ pc' = "done"
            /\ outcome' = Escaped("AttributeError",
                                  "'" \o context.t \o "' object has no attribute 'copy'")
            /\ UNCHANGED nsVars
    /\ UNCHANGED <<hostVars, rlimits, execution_count, fs, calls, callVars, tmpdir,
                   child, original_limits, verdict, setup_at_verdict, limits_error,
                   ip, executed, private_reads, exc>>

\* with self._resource_limits(): the limits are saved and lowered
InlineEnterLimits ==
    /\ pc = "inl_limits"
    /\ LET r == EnterLimits(platform, rlimits, privileged)
       IN  /\ rlimits' = r.rl
           /\ original_limits' = r.saved
           /\ limits_error' = r.err
           /\ IF r.err # ""
              THEN exc' = Exc("ValueError", r.err) /\ pc' = "inl_exit"
              ELSE exc' = exc /\ pc' = "inl_validate"
    /\ UNCHANGED <<hostVars, execution_count, fs, calls, callVars, tmpdir, child,
                   old_handler, verdict, setup_at_verdict, alarm_armed, handler,
                   elapsed, runVars, outcome>>

\* the setup in force at this point of the call
SetupNow ==
    [limits_lowered |-> rlimits # call_limits,
     alarm_installed |-> alarm_armed /\ handler = "_timeout_handler"]

\* ast.parse(code) and ExtensionValidator().visit(tree)
InlineValidate ==
    /\ pc = "inl_validate"
    /\ setup_at_verdict' = SetupNow
    /\ IF ParseFails(code)
       THEN /\ exc' = Exc("SyntaxError", "invalid syntax")
            /\ pc' = "inl_exit"
            /\ UNCHANGED <<verdict, ip>>
       ELSE LET e == Visit(Parse(code))
            IN  IF e # ""
                THEN /\ verdict' = "rejected"
                     /\ exc' = Exc("ValueError", e)
                     /\ pc' = "inl_exit"
                     /\ UNCHANGED ip
                ELSE /\ verdict' = "accepted"
                     /\ ip' = 1
                     /\ pc' = "inl_exec"
                     /\ UNCHANGED exc
    /\ UNCHANGED <<hostVars, rlimits, execution_count, fs, calls, callVars, tmpdir,
                   child, original_limits, old_handler, limits_error, alarm_armed,
                   handler, elapsed, ns_result, output_buffer, executed,
                   private_reads, nsVars, outcome>>

\* The way out of _execute_inline's try: _resource_limits' finally (an error of
\* which replaces the exception in flight), the except clauses or the return,
\* and the finally that cancels the timer.
InlineExit ==
    /\ pc = "inl_exit"
    /\ LET r == ExitLimits(rlimits, original_limits, privileged)
           final == IF r.err # "" THEN Exc("ValueError", r.err) ELSE exc
       IN  /\ rlimits' = r.rl
           /\ outcome' =
                IF final = NoExc
                THEN Returned(TRUE, ns_result, JoinWith("\n", output_buffer))
                ELSE IF final.type = "TimeoutError"
                THEN Returned(FALSE, PyNone, final.text)
                ELSE Returned(FALSE, PyNone, "Extension error: " \o final.text)
    /\ IF HasSIGALRM(platform)
       THEN alarm_armed' = FALSE /\ handler' = old_handler
       ELSE UNCHANGED <<alarm_armed, handler>>
    /\ pc' = "done"
    /\ UNCHANGED <<hostVars, execution_count, fs, calls, callVars, tmpdir, child,
                   inlineVars, elapsed, runVars, exc>>

(***************************************************************************)
(* The isolated path: _execute_subprocess and the child.                   *)
(***************************************************************************)
\* an exception leaves the with block: the directory is removed on the way
LeaveWith(result, fault) ==
    /\ outcome' = result
    /\ io_fault' = fault
    /\ fs' = Cleanup(fs, tmpdir)
    /\ pc' = "done"

\* open(script_path, 'w') and f.write(wrapper); the write may fail
SubWriteScript ==
    /\ pc = "sub_write_script"
    /\ \E ok \in BOOLEAN :
         IF ok
         THEN /\ fs' = fs \cup {tmpdir \o "/extension.py"}
              /\ pc' = "sub_write_context"
              /\ UNCHANGED <<outcome, io_fault>>
         ELSE LeaveWith(Escaped("OSError", "No space left on device"), TRUE)
    /\ UNCHANGED <<hostVars, rlimits, execution_count, calls, callArgs, context,
                   tmpdir, child, inlineVars, alarm_armed, handler, elapsed, runVars,
                   exc>>

\* open(context_path, 'w') and json.dump(context, f)
SubWriteContext ==
    /\ pc = "sub_write_context"
    /\ \E ok \in BOOLEAN :
         IF ~JSONSerializable(context)
         THEN LeaveWith(Escaped("TypeError",
                  "Object of type " \o Unserializable(context) \o " is not JSON serializable"), FALSE)
         ELSE IF ok
         THEN /\ fs' = fs \cup {tmpdir \o "/context.json"}
              /\ pc' = "sub_launch"
              /\ UNCHANGED <<outcome, io_fault>>
         ELSE LeaveWith(Escaped("OSError", "No space left on device"), TRUE)
    /\ UNCHANGED <<hostVars, rlimits, execution_count, calls, callArgs, context,
                   tmpdir, child, inlineVars, alarm_armed, handler, elapsed, runVars,
                   exc>>

\* The environment is prepared and subprocess.run starts the child; a failure
\* to start it is caught by "except Exception".
SubLaunch ==
    /\ pc = "sub_launch"
    /\ \E ok \in BOOLEAN :
         IF ok
         THEN /\ child' = [NoChild EXCEPT !.state = "spawned",
                                          !.env = ChildEnv(environ, tmpdir),
                                          !.cwd = tmpdir,
                                          \* no preexec_fn: the limits are the
                                          \* parent's, as fork hands them on
                                          !.rlimits = rlimits]
              /\ elapsed' = 0
              /\ pc' = "sub_wait"
              /\ UNCHANGED <<outcome, fs, io_fault>>
         ELSE /\ LeaveWith(Returned(FALSE, PyNone,
                     "Subprocess execution failed: [Errno 12] Cannot allocate memory"), TRUE)
              /\ UNCHANGED <<child, elapsed>>
    /\ UNCHANGED <<hostVars, rlimits, execution_count, calls, callArgs, context,
                   tmpdir, inlineVars, alarm_armed, handler, runVars, exc>>

\* The child's interpreter compiles the script, and, if it compiles, runs it
\* up to exec: the alarm is armed, the context loaded, the code compiled.
ChildStart ==
    /\ pc = "sub_wait"
    /\ child.state = "spawned"
    /\ IF ~WrapperCompiles
       THEN /\ child' = [child EXCEPT !.state = "exited", !.returncode = 1,
                                      !.stderr = WrapperStderr(tmpdir)]
            /\ UNCHANGED <<ip, ns_result, output_buffer, nsVars>>
       ELSE IF ParseFails(code)
       THEN /\ child' = [child EXCEPT !.state = "exited", !.returncode = 1,
                                      !.stdout = StdoutError("invalid syntax")]
            /\ UNCHANGED <<ip, ns_result, output_buffer, nsVars>>
       ELSE /\ child' = [child EXCEPT !.state = "running", !.alarm = TRUE]
            /\ ip' = 1
            /\ ns_result' = PyNone
            /\ output_buffer' = <<>>
            /\ ns_builtins' = [safe_builtins EXCEPT !["print"] = "function"]
            /\ ns_context' = JSONRoundTrip(context)
    /\ UNCHANGED <<hostVars, rlimits, execution_count, fs, calls, callVars, tmpdir,
                   inlineVars, alarm_armed, handler, elapsed, executed, private_reads,
                   exc, outcome, pc>>

\* the tuple _execute_subprocess makes of a finished child
ParseChild(c) ==
    IF c.returncode = 0
    THEN IF c.stdout.kind = "empty"
         THEN Returned(FALSE, PyNone, "Invalid output: ")
         ELSE Returned(TRUE, c.stdout.result, c.stdout.output)
    ELSE Returned(FALSE, PyNone, "Extension error: " \o c.stderr)

\* run without timeout=
WaitNeverExpires(waited) == FALSE

\* subprocess.run(..., timeout=EXECUTION_TIMEOUT_SECONDS): the wait has lasted
\* the timeout's seconds, after which run kills the child and raises
\* TimeoutExpired whatever the child has done since
WaitExpired(waited) == waited >= EXECUTION_TIMEOUT_SECONDS

\* subprocess.run returns: the child has exited within the timeout
SubCollect ==
    /\ pc = "sub_wait"
    /\ child.state = "exited"
    /\ ~WaitExpired(elapsed)
    /\ child' = [child EXCEPT !.state = "reaped"]
    /\ LeaveWith(ParseChild(child), FALSE)
    /\ UNCHANGED <<hostVars, rlimits, execution_count, calls, callArgs, context,
                   tmpdir, inlineVars, alarm_armed, handler, elapsed, runVars, exc>>

\* subprocess.run raises TimeoutExpired: it has killed the child
SubTimeout ==
    /\ pc = "sub_wait"
    /\ WaitExpired(elapsed)
    /\ child' = [child EXCEPT !.state = "killed"]
    /\ LeaveWith(Returned(FALSE, PyNone, SubprocessTimeoutText), FALSE)
    /\ UNCHANGED <<hostVars, rlimits, execution_count, calls, callArgs, context,
                   tmpdir, inlineVars, alarm_armed, handler, elapsed, runVars, exc>>

(***************************************************************************)
(* Execution of the snippet, in the host (in-process path) or in the child *)
(* (isolated path), the timers, and the return to the caller.              *)
(***************************************************************************)
InHost == pc = "inl_exec"
InChild == pc = "sub_wait" /\ child.state = "running"

\* The caller's mapping after the snippet changed, in place, the values under
\* the keys touched of the namespace's shallow copy.
Shared(caller, copy, touched) ==
    IF caller.t # "dict" \/ copy.t # "dict" THEN caller
    ELSE PyDict([k \in DOMAIN caller.d |->
                    IF k \in touched /\ k \in DOMAIN copy.d THEN copy.d[k]
                    ELSE caller.d[k]])

\* the child's exit after exec: the result message, or the error message when
\* json.dumps rejects the result
ChildFinished(c, result, lines) ==
    IF JSONSerializable(result)
    THEN [c EXCEPT !.state = "exited", !.returncode = 0,
                   !.stdout = StdoutResult(result, JoinWith("\n", lines))]
    ELSE [c EXCEPT !.state = "exited", !.returncode = 1,
                   !.stdout = StdoutError("Object of type " \o Unserializable(result)
                                          \o " is not JSON serializable")]

\* the child's "except Exception" branch
ChildFailed(c, text) ==
    [c EXCEPT !.state = "exited", !.returncode = 1, !.stdout = StdoutError(text)]

\* exec(compile(...), namespace): the next statement of the snippet, or the end
\* of the snippet
ExecStep ==
    /\ InHost \/ InChild
    /\ LET body == Parse(code).kids
           atEnd == ip > Len(body)
           ns == [result |-> ns_result, context |-> ns_context, builtins |-> ns_builtins]
           r == IF atEnd
                THEN NoEffect(ns)
                ELSE ExecStmt(body[ip], ns)
           ended == atEnd \/ r.err # ""
       IN  /\ executed' = (executed \/ ~atEnd)
           /\ ns_result' = r.result
           /\ ns_context' = r.ctx
           /\ private_reads' = private_reads \cup r.priv
           \* namespace['context'] is context.copy() in the host: the values of
           \* the caller's mapping are the same objects
           /\ context' = IF InHost THEN Shared(context, r.ctx, r.touched) ELSE context
           /\ output_buffer' = output_buffer \o r.out
           /\ ip' = IF ended \/ r.loops THEN ip ELSE ip + 1
           /\ IF InHost
              THEN /\ exc' = IF r.err # "" THEN Exc("Exception", r.err) ELSE exc
                   /\ pc' = IF ended THEN "inl_exit" ELSE pc
                   /\ UNCHANGED child
              ELSE /\ child' = IF r.err # "" THEN ChildFailed(child, r.err)
                               ELSE IF atEnd
                               THEN ChildFinished(child, ns_result, output_buffer)
                               ELSE child
                   /\ UNCHANGED <<exc, pc>>
    /\ UNCHANGED <<hostVars, rlimits, execution_count, fs, calls, callArgs, io_fault,
                   tmpdir, inlineVars, alarm_armed, handler, elapsed, ns_builtins,
                   outcome>>

\* the statement being executed catches whatever is raised in it
Catches ==
    LET body == Parse(code).kids
    IN  ip \in 1..Len(body) /\ LoopCatches(body[ip])

\* SIGALRM is delivered to the process that runs the snippet.  In the host,
\* _timeout_handler raises TimeoutError; in the child, timeout_handler prints
\* the error message and raises SystemExit.  The timer is one-shot.  The
\* child's timer runs from the moment the child armed it, which the parent's
\* wait does not measure: it may expire before or after the wait does.
AlarmFires ==
    /\ \/ /\ InHost /\ alarm_armed /\ handler = "_timeout_handler"
          /\ elapsed = EXECUTION_TIMEOUT_SECONDS
       \/ InChild /\ child.alarm
    /\ IF InHost
       THEN /\ alarm_armed' = FALSE
            /\ exc' = IF Catches THEN exc ELSE Exc("TimeoutError", InlineTimeoutText)
            /\ pc' = IF Catches THEN pc ELSE "inl_exit"
            /\ UNCHANGED child
       ELSE /\ child' = IF Catches
                        THEN [child EXCEPT !.alarm = FALSE,
                                           !.stdout = StdoutError("Execution timeout")]
                        ELSE [child EXCEPT !.alarm = FALSE, !.state = "exited",
                                           !.returncode = 1,
                                           !.stdout = StdoutError("Execution timeout")]
            /\ UNCHANGED <<alarm_armed, exc, pc>>
    /\ UNCHANGED <<hostVars, rlimits, execution_count, fs, calls, callVars, tmpdir,
                   inlineVars, handler, elapsed, runVars, outcome>>

\* the timeout's seconds pass while the snippet runs or the parent waits
DeadlinePasses ==
    /\ pc \in {"inl_exec", "sub_wait"}
    /\ elapsed < EXECUTION_TIMEOUT_SECONDS
    /\ elapsed' = EXECUTION_TIMEOUT_SECONDS
    /\ UNCHANGED <<hostVars, rlimits, execution_count, fs, calls, callVars, tmpdir,
                   child, inlineVars, alarm_armed, handler, runVars, exc, outcome, pc>>

\* the deadline expired in the call: TimeoutError was raised in the host, or
\* subprocess.run killed the child
Expired == exc.type = "TimeoutError" \/ child.state = "killed"

\* the invocation's locals are gone
Forget ==
    /\ pc = "done"
    /\ pc' = "idle"
    /\ entry' = ""
    /\ code' = ""
    /\ context' = PyNone
    /\ call_context' = PyNone
    /\ call_limits' = rlimits
    /\ io_fault' = FALSE
    /\ tmpdir' = ""
    /\ child' = NoChild
    /\ original_limits' = <<>>
    /\ old_handler' = ""
    /\ verdict' = "none"
    /\ setup_at_verdict' = NoSetup
    /\ limits_error' = ""
    /\ elapsed' = 0
    /\ ip' = 0
    /\ ns_result' = PyNone
    /\ ns_builtins' = <<>>
    /\ ns_context' = PyNone
    /\ private_reads' = {}
    /\ output_buffer' = <<>>
    /\ executed' = FALSE
    /\ exc' = NoExc
    /\ outcome' = NoOutcome
    /\ strategy' = {}
    /\ UNCHANGED <<platform, privileged, environ, rlimits, execution_count, fs, calls,
                   alarm_armed, handler, threads, taskVars, wizardVars>>

\* the caller has the outcome
Return == Forget /\ UNCHANGED prev

\* the caller has the outcome, and keeps the call to make it again
ReturnKept ==
    /\ Forget
    /\ prev' = [entry |-> entry, code |-> code, context |-> context,
                outcome |-> outcome, expired |-> Expired]

Next ==
    \/ LoadModule
    \/ \E c \in Snippets, ctx \in Contexts : ExecuteExtension(c, ctx)
    \/ \E c \in Snippets, ctx \in Contexts : ExecuteInline(c, ctx)
    \/ InlineSetup
    \/ InlineEnterLimits
    \/ InlineValidate
    \/ InlineExit
    \/ SubWriteScript
    \/ SubWriteContext
    \/ SubLaunch
    \/ ChildStart
    \/ SubCollect
    \/ SubTimeout
    \/ ExecStep
    \/ AlarmFires
    \/ DeadlinePasses
    \/ Return

Spec == Init /\ [][Next]_vars

(***************************************************************************)
(* A host that submits a snippet and then submits it again, with the same  *)
(* context object, through either entry.                                   *)
(***************************************************************************)
InitRepeat ==
    /\ Init
    /\ platform = "linux"
    /\ rlimits = [n \in LimitNames |-> <<RLIM_INFINITY, RLIM_INFINITY>>]
    /\ environ = [k \in {"LANG"} |-> EnvPool[k]]

NextRepeat ==
    \/ LoadModule
    \/ \E c \in RepeatSnippets, ctx \in RepeatContexts :
          prev = NoPrev /\ ExecuteExtension(c, ctx)
    \/ \E c \in RepeatSnippets, ctx \in RepeatContexts :
          prev = NoPrev /\ ExecuteInline(c, ctx)
    \/ prev # NoPrev /\ ExecuteExtension(prev.code, prev.context)
    \/ prev # NoPrev /\ ExecuteInline(prev.code, prev.context)
    \/ InlineSetup
    \/ InlineEnterLimits
    \/ InlineValidate
    \/ InlineExit
    \/ SubWriteScript
    \/ SubWriteContext
    \/ SubLaunch
    \/ ChildStart
    \/ SubCollect
    \/ SubTimeout
    \/ ExecStep
    \/ AlarmFires
    \/ DeadlinePasses
    \/ ReturnKept

SpecRepeat == InitRepeat /\ [][NextRepeat]_vars

(***************************************************************************)
(* Two threads that call execute_extension on one sandbox.  Each statement *)
(* of a thread is a step; "self.execution_count += 1" is a load and a      *)
(* store, between which the interpreter may run the other thread.          *)
(***************************************************************************)
\* a thread enters execute_extension(code, context)
ThreadCall(t, c) ==
    /\ pc = "idle"
    /\ threads[t].pc = "idle"
    /\ threads[t].calls < MaxCalls
    /\ threads' = [threads EXCEPT ![t] =
                      [NoFrame EXCEPT !.pc = "load_count", !.code = c,
                                      !.calls = threads[t].calls + 1]]
    /\ UNCHANGED <<frameVars, calls, execution_count, fs, taskVars, wizardVars>>

\* self.execution_count += 1: the attribute is loaded
ThreadLoadCount(t) ==
    /\ threads[t].pc = "load_count"
    /\ threads' = [threads EXCEPT ![t].loaded = execution_count,
                                  ![t].pc = "store_count"]
    /\ UNCHANGED <<frameVars, calls, execution_count, fs, taskVars, wizardVars>>

\* self.execution_count += 1: the sum is stored
ThreadStoreCount(t) ==
    /\ threads[t].pc = "store_count"
    /\ execution_count' = threads[t].loaded + 1
    /\ threads' = [threads EXCEPT ![t].pc = "isolate"]
    /\ UNCHANGED <<frameVars, calls, fs, taskVars, wizardVars>>

\* _execute_subprocess up to subprocess.run: the thread's own scratch
\* directory, the script and the context in it
ThreadIsolate(t) ==
    /\ threads[t].pc = "isolate"
    /\ ShouldUseSubprocess(platform)
    /\ LET d == FreshScratch(fs)
       IN  /\ fs' = fs \cup {d, d \o "/extension.py", d \o "/context.json"}
           /\ threads' = [threads EXCEPT ![t].tmpdir = d, ![t].pc = "wait"]
    /\ UNCHANGED <<frameVars, calls, execution_count, taskVars, wizardVars>>

\* subprocess.run returns: the thread's child has exited, its interpreter
\* having rejected the script; the directory is removed
ThreadCollect(t) ==
    /\ threads[t].pc = "wait"
    /\ ~WrapperCompiles
    /\ threads' = [threads EXCEPT
                      ![t].outcome =
                          ParseChild([NoChild EXCEPT
                                         !.state = "exited", !.returncode = 1,
                                         !.stderr = WrapperStderr(threads[t].tmpdir)]),
                      ![t].pc = "done"]
    /\ fs' = Cleanup(fs, threads[t].tmpdir)
    /\ UNCHANGED <<frameVars, calls, execution_count, taskVars, wizardVars>>

\* the thread's caller has the outcome
ThreadReturn(t) ==
    /\ threads[t].pc = "done"
    /\ threads' = [threads EXCEPT ![t].pc = "idle", ![t].tmpdir = ""]
    /\ UNCHANGED <<frameVars, calls, execution_count, fs, taskVars, wizardVars>>

InitThreads ==
    /\ Init
    /\ platform = "linux"
    /\ privileged = FALSE
    /\ rlimits = [n \in LimitNames |-> <<RLIM_INFINITY, RLIM_INFINITY>>]
    /\ environ = [k \in {"LANG"} |-> EnvPool[k]]

NextThreads ==
    \/ LoadModule
    \/ \E t \in Threads, c \in {SrcArith, SrcLoop} : ThreadCall(t, c)
    \/ \E t \in Threads : ThreadLoadCount(t)
    \/ \E t \in Threads : ThreadStoreCount(t)
    \/ \E t \in Threads : ThreadIsolate(t)
    \/ \E t \in Threads : ThreadCollect(t)
    \/ \E t \in Threads : ThreadReturn(t)

SpecThreads == InitThreads /\ [][NextThreads]_vars

(***************************************************************************)
(* TaskManager and PhaseManager.  A call is one step: each runs in one     *)
(* thread on one connection.                                               *)
(***************************************************************************)
\* what a call leaves: the operation, its arguments, the exception it raised
\* ("" when it returned) and the tables as the call found them
Called(op, id, arg, error) ==
    [op |-> op, id |-> id, arg |-> arg, error |-> error,
     tasks |-> tasks, phases |-> phases, audit_log |-> audit_log]

\* TaskManager._audit_log
AuditRow(entity_id, action) == [entity_id |-> entity_id, action |-> action]

\* TaskManager.create_task(description, phase_id); phase_id 0 is the default,
\* None
CreateTask(description, phase_id) ==
    /\ pc = "idle"
    /\ calls < MaxOps
    /\ Len(tasks) < MaxTasks
    /\ calls' = calls + 1
    /\ LET p == IF phase_id = 0 THEN GetCurrentPhaseId(phases)
                ELSE [phases |-> phases, id |-> phase_id, error |-> ""]
           error ==
               IF description = "" THEN "ValueError: Task description cannot be empty"
               ELSE IF p.error # "" THEN p.error
               ELSE IF p.id \notin DOMAIN p.phases
               THEN "IntegrityError: FOREIGN KEY constraint failed"
               ELSE ""
       IN  /\ tm_call' = Called("create_task", Len(tasks) + 1, IntStr(phase_id), error)
           /\ IF error # ""
              THEN UNCHANGED <<tasks, phases, audit_log>>
              ELSE /\ tasks' = Append(tasks, NewTask(p.id))
                   /\ phases' = p.phases
                   /\ audit_log' = Append(audit_log, AuditRow(Len(tasks) + 1, "create"))
    /\ UNCHANGED <<frameVars, execution_count, fs, threads, wizardVars>>

\* the columns update_task_status sets for an allowed transition
StatusUpdates(task, new_status, comment, repo) ==
    CASE new_status = "in_progress" ->
             [task EXCEPT !.status = new_status, !.started_at = Timestamp]
      [] new_status = "review" ->
             [task EXCEPT !.status = new_status,
                          !.commit_hash = IF repo = "clean" THEN "rev" ELSE @,
                          !.completed_at = Timestamp,
                          !.review_comment = IF comment # NULL THEN comment ELSE @]
      [] new_status = "completed" ->
             [task EXCEPT !.status = new_status, !.reviewed_at = Timestamp]
      [] new_status = "pending" /\ task.status = "review" ->
             [task EXCEPT !.status = new_status, !.started_at = NULL,
                          !.completed_at = NULL,
                          !.review_feedback = IF comment # NULL THEN comment ELSE @]
      [] OTHER -> [task EXCEPT !.status = new_status]

\* update_task_status' checks: "" or the exception raised before anything is
\* written
StatusError(ts, task_id, new_status, repo) ==
    IF task_id \notin DOMAIN ts
    THEN "ValueError: Task " \o IntStr(task_id) \o " not found"
    ELSE IF new_status \notin TaskStatuses
    THEN "ValueError: '" \o new_status \o "' is not a valid TaskStatus"
    ELSE IF ~can_transition_to(ts[task_id].status, new_status)
    THEN "ValueError: Invalid transition from " \o ts[task_id].status
             \o " to " \o new_status
    ELSE IF new_status = "review" /\ repo = "dirty"
    THEN "ValueError: Cannot move to review with uncommitted changes. "
             \o "Please commit your work first."
    ELSE ""

\* TaskManager.update_task_status(task_id, new_status, comment), in a working
\* directory whose repository is absent, clean or dirty
UpdateTaskStatus(task_id, new_status, comment, repo) ==
    /\ pc = "idle"
    /\ calls < MaxOps
    /\ calls' = calls + 1
    /\ LET error == StatusError(tasks, task_id, new_status, repo)
       IN  /\ tm_call' = Called("update_task_status", task_id, new_status, error)
           /\ IF error # ""
              THEN UNCHANGED <<tasks, audit_log>>
              ELSE /\ tasks' = [tasks EXCEPT ![task_id] =
                                   StatusUpdates(tasks[task_id], new_status, comment, repo)]
                   /\ audit_log' = Append(audit_log, AuditRow(task_id, "status_change"))
    /\ UNCHANGED <<frameVars, execution_count, fs, threads, phases, wizardVars>>

\* TaskManager.delete_task(task_id)
DeleteTask(task_id) ==
    /\ pc = "idle"
    /\ calls < MaxOps
    /\ calls' = calls + 1
    /\ tm_call' = Called("delete_task", task_id, NULL, "")
    /\ IF task_id \notin DOMAIN tasks
       THEN UNCHANGED <<tasks, audit_log>>
       ELSE /\ tasks' = [tasks EXCEPT ![task_id].status = "completed",
                                      ![task_id].review_comment = "DELETED",
                                      ![task_id].reviewed_at = Timestamp]
            /\ audit_log' = Append(audit_log, AuditRow(task_id, "delete"))
    /\ UNCHANGED <<frameVars, execution_count, fs, threads, phases, wizardVars>>

\* create_phase's checks of the board: "" or the ValueError
BoardError(ts, current) ==
    IF ListByStatus(ts, "pending") \cup ListByStatus(ts, "in_progress")
           \cup ListByStatus(ts, "review") # {}
    THEN "ValueError: Cannot create new phase. active tasks remain."
    ELSE IF ListByPhase(ts, current) = {}
    THEN "ValueError: Cannot close a phase with no tasks."
    ELSE ""

\* UPDATE phases SET status = 'completed' WHERE id = ?, committed
Archive(ph, current) == [ph EXCEPT ![current].status = "completed"]

\* PhaseManager.create_phase(title): the checks, the transaction that archives
\* the current phase, and then the transaction that inserts the new one
CreatePhase(title) ==
    /\ pc = "idle"
    /\ calls < MaxOps
    /\ calls' = calls + 1
    /\ LET current == CurrentPhase(phases)
           board == IF current # 0 THEN BoardError(tasks, current) ELSE ""
           archived == IF current # 0 THEN Archive(phases, current) ELSE phases
           next_number == IF current # 0 THEN phases[current].number + 1 ELSE 1
           inserted == InsertPhase(archived, next_number, title)
       IN  IF board # ""
           THEN /\ tm_call' = Called("create_phase", 0, title, board)
                /\ UNCHANGED phases
           ELSE /\ tm_call' = Called("create_phase", inserted.id, title, inserted.error)
                /\ phases' = inserted.phases
    /\ UNCHANGED <<frameVars, execution_count, fs, threads, tasks, audit_log, wizardVars>>

InitTasks ==
    /\ Init
    /\ platform = "linux"
    /\ privileged = FALSE
    /\ rlimits = [n \in LimitNames |-> <<RLIM_INFINITY, RLIM_INFINITY>>]
    /\ environ = [k \in {"LANG"} |-> EnvPool[k]]

NextTasks ==
    \/ LoadModule
    \/ \E description \in {"a", ""}, phase_id \in 0..(Len(phases) + 1) :
          CreateTask(description, phase_id)
    \/ \E task_id \in 1..(Len(tasks) + 1), new_status \in TaskStatuses \cup {"bogus"},
          comment \in {NULL, "c"}, repo \in {"none", "clean", "dirty"} :
          UpdateTaskStatus(task_id, new_status, comment, repo)
    \/ \E task_id \in 1..(Len(tasks) + 1) : DeleteTask(task_id)
    \/ \E title \in {"Next", NULL} : CreatePhase(title)

SpecTasks == InitTasks /\ [][NextTasks]_vars

(***************************************************************************)
(* WizardStateManager.  User contexts are interchangeable, so the host     *)
(* numbers them in the order in which it first uses them.                  *)
(***************************************************************************)
\* SELECT ... FROM wizard_states WHERE session_id = ?: the row's index, or 0
RowOf(rows, session_id) ==
    IF \E i \in DOMAIN rows : rows[i].session_id = session_id
    THEN CHOOSE i \in DOMAIN rows : rows[i].session_id = session_id
    ELSE 0

\* DELETE FROM wizard_states WHERE session_id = ?
DeleteSession(rows, session_id) ==
    SelectSeq(rows, LAMBDA r : r.session_id # session_id)

\* recovery_cache.pop(session_id, None)
CachePop(cache, session_id) ==
    [k \in DOMAIN cache \ {session_id} |-> cache[k]]

\* recovery_cache[session_id] = state
CachePut(cache, session_id, state) ==
    [k \in DOMAIN cache \cup {session_id} |->
        IF k = session_id THEN state ELSE cache[k]]

\* WizardStateManager.load_state(session_id) at hour "at": what it returns
\* (result: <<state>>, or <<>> for None), what it raises (error) and what it
\* leaves
load_state(rows, cache, session_id, at) ==
    LET i == RowOf(rows, session_id)
    IN  IF session_id \in DOMAIN cache
        THEN [rows |-> rows, cache |-> cache, result |-> <<cache[session_id]>>, error |-> ""]
        ELSE IF i = 0
        THEN [rows |-> rows, cache |-> cache, result |-> <<>>, error |-> ""]
        ELSE IF ~rows[i].completed
                /\ FromIsoFormatError(SelectTimestamp(rows[i].expires_at)) # ""
        THEN [rows |-> rows, cache |-> cache, result |-> <<>>,
              error |-> "TypeError: "
                        \o FromIsoFormatError(SelectTimestamp(rows[i].expires_at))]
        ELSE IF ~rows[i].completed /\ rows[i].expires_at < at
        THEN [rows |-> DeleteSession(rows, session_id),
              cache |-> CachePop(cache, session_id), result |-> <<>>, error |-> ""]
        ELSE [rows |-> rows, cache |-> CachePut(cache, session_id, rows[i].state_data),
              result |-> <<rows[i].state_data>>, error |-> ""]

\* what a call leaves: the operation, its arguments, what it returned or
\* raised, and the table and the hour as the call found them
WizardCalled(op, session_id, wizard_name, user_context, result, error) ==
    [op |-> op, session_id |-> session_id, wizard_name |-> wizard_name,
     user_context |-> user_context, result |-> result, error |-> error,
     rows |-> wizard_states, at |-> now]

\* _generate_session_id: a digest of the name, the context and the time of
\* the call, which no earlier call has given
SessionId(n) == "s" \o IntStr(n)

\* WizardStateManager.start_wizard(wizard_name, user_context)
StartWizard(wizard_name, user_context) ==
    /\ pc = "idle"
    /\ calls < MaxSessions
    /\ calls' = calls + 1
    /\ \E S \in SUBSET Resumable(wizard_states, wizard_name, now) :
         /\ IsNewest(S, Resumable(wizard_states, wizard_name, now), wizard_states,
                     ResumeLimit)
         /\ LET resumable ==
                    {i \in S : ContextsMatch(wizard_states[i].state_data.user_context,
                                             user_context)}
            IN  IF resumable # {}
                THEN \E i \in resumable :
                       /\ \A j \in resumable :
                              wizard_states[j].updated_at <= wizard_states[i].updated_at
                       /\ wz_call' = WizardCalled("start_wizard",
                                                  wizard_states[i].session_id,
                                                  wizard_name, user_context, <<>>, "")
                       /\ UNCHANGED wizard_states
                ELSE /\ wizard_states' =
                            Append(wizard_states,
                                   NewSession(SessionId(calls + 1), wizard_name,
                                              user_context, now))
                     /\ wz_call' = WizardCalled("start_wizard", SessionId(calls + 1),
                                                wizard_name, user_context, <<>>, "")
    /\ UNCHANGED <<frameVars, execution_count, fs, threads, taskVars, recovery_cache,
                   now>>

\* WizardStateManager.load_state(session_id), called by the host
LoadState(session_id) ==
    /\ pc = "idle"
    /\ calls < MaxSessions
    /\ calls' = calls + 1
    /\ LET r == load_state(wizard_states, recovery_cache, session_id, now)
       IN  /\ wizard_states' = r.rows
           /\ recovery_cache' = r.cache
           /\ wz_call' = WizardCalled("load_state", session_id, "", <<>>, r.result,
                                      r.error)
    /\ UNCHANGED <<frameVars, execution_count, fs, threads, taskVars, now>>

\* WizardStateManager.save_step(session_id, step_name, step_data, next_step)
SaveStep(session_id, next_step) ==
    /\ pc = "idle"
    /\ calls < MaxSessions
    /\ calls' = calls + 1
    /\ LET r == load_state(wizard_states, recovery_cache, session_id, now)
           i == RowOf(r.rows, session_id)
           state == [r.result[1] EXCEPT !.current_step = next_step]
       IN  IF r.error # ""
           THEN /\ wz_call' = WizardCalled("save_step", session_id, "", <<>>, <<>>, r.error)
                /\ wizard_states' = r.rows
                /\ recovery_cache' = r.cache
           ELSE IF r.result = <<>>
           THEN /\ wz_call' = WizardCalled("save_step", session_id, "", <<>>, <<>>,
                                           "ValueError: Invalid session: " \o session_id)
                /\ wizard_states' = r.rows
                /\ recovery_cache' = r.cache
           ELSE /\ wz_call' = WizardCalled("save_step", session_id, "", <<>>, <<>>, "")
                /\ wizard_states' =
                       IF i = 0 THEN r.rows
                       ELSE [r.rows EXCEPT ![i].state_data = state,
                                           ![i].updated_at = now]
                /\ recovery_cache' = CachePut(r.cache, session_id, state)
    /\ UNCHANGED <<frameVars, execution_count, fs, threads, taskVars, now>>

\* the clock is read TickHours later
Tick ==
    /\ pc = "idle"
    /\ now < MaxTicks * TickHours
    /\ now' = now + TickHours
    /\ UNCHANGED <<frameVars, execution_count, fs, calls, threads, taskVars,
                   wizard_states, recovery_cache, wz_call>>

\* the contexts the host has used, and the next one
HostContexts ==
    {UserContext(p) : p \in 1..(IF Len(wizard_states) < NumContexts
                                THEN Len(wizard_states) + 1 ELSE NumContexts)}

\* the session ids the host knows, and one that no row has
HostSessionIds ==
    {wizard_states[i].session_id : i \in DOMAIN wizard_states} \cup {"missing"}

InitWizard ==
    /\ Init
    /\ platform = "linux"
    /\ privileged = FALSE
    /\ rlimits = [n \in LimitNames |-> <<RLIM_INFINITY, RLIM_INFINITY>>]
    /\ environ = [k \in {"LANG"} |-> EnvPool[k]]

NextWizard ==
    \/ LoadModule
    \/ \E wizard_name \in WizardNames, user_context \in HostContexts :
          StartWizard(wizard_name, user_context)
    \/ \E session_id \in HostSessionIds : LoadState(session_id)
    \/ \E session_id \in HostSessionIds, next_step \in {1} : SaveStep(session_id, next_step)
    \/ Tick

SpecWizard == InitWizard /\ [][NextWizard]_vars

(***************************************************************************)
(* Properties.                                                             *)
(***************************************************************************)
\* the call is over and its outcome is with the caller
Done == pc = "done"
\* the isolated path ran to the point where the parent read the child's exit
ChildCollected == Done /\ entry = "execute_extension" /\ child.state = "reaped"
\* a tuple (False, None, text)
Failed(text) == outcome = Returned(FALSE, PyNone, text)

\* C1: when the validator rejects a snippet, no resource limit had been
\* lowered and no timeout alarm or handler installed at the moment it decided.
C1_RejectedBeforeSetup ==
    verdict = "rejected" =>
        /\ ~setup_at_verdict.limits_lowered
        /\ ~setup_at_verdict.alarm_installed

\* C2: after an invocation that entered _resource_limits, the three limits
\* (soft and hard) are what they were when the invocation started.
C2_LimitsRestored ==
    (Done /\ original_limits # <<>>) => rlimits = call_limits

\* C3: a snippet that never finishes ends, through execute_extension, in a
\* failed outcome that reports the timeout.
C3_LoopEndsInTimeout ==
    (Done /\ entry = "execute_extension" /\ code \in {SrcLoop, SrcGuardedLoop}
          /\ ~io_fault /\ context = CtxPlain) =>
        \/ Failed(SubprocessTimeoutText)
        \/ Failed(InlineTimeoutText)

\* C4: a snippet with an import statement ends in the validator's rejection,
\* "Import statements are not allowed", whichever strategy ran it.
C4_ImportRejected ==
    (Done /\ entry = "execute_extension" /\ code = SrcImport /\ ~io_fault
          /\ context = CtxPlain /\ child.state # "killed") =>
        Failed("Extension error: " \o ImportError)

\* C5: the arithmetic snippet "result = 1 + 2" run through execute_extension
\* gives success with result 3.
C5_ArithmeticResult ==
    (ChildCollected /\ code = SrcArith /\ context = CtxPlain) =>
        /\ outcome.success
        /\ outcome.result.t = "int"
        /\ outcome.result.i = 3

\* C6: the captured output of a successful outcome is never longer than the
\* 1000 characters of the documented cap.
C6_OutputCapped ==
    (Done /\ outcome.kind = "returned" /\ outcome.success) =>
        Len(outcome.text) <= PrintLimit

\* the snippets with an import, a deny-listed name or a private attribute
MustBeRejected == {SrcImport, SrcDenied, SrcPrivate}

C8_NoExceptionEscapes ==
    (Done /\ entry = "execute_extension" /\ ~io_fault) => outcome.kind = "returned"

\* the credential-shaped words of the environment scrubbing
CredentialWords == {"KEY", "TOKEN", "SECRET", "PASSWORD", "CREDENTIAL"}

\* C9: the environment of a launched child has no variable whose name
\* contains, in any case, a credential-shaped word; its PATH is empty and its
\* HOME and TMPDIR are the invocation's scratch directory.
C9_ChildEnvScrubbed ==
    child.state # "none" =>
        /\ \A k \in DOMAIN child.env :
              \A w \in CredentialWords : ~Contains(Upper(k), w)
        /\ {"PATH", "HOME", "TMPDIR"} \subseteq DOMAIN child.env
        /\ child.env["PATH"] = ""
        /\ child.env["HOME"] = tmpdir
        /\ child.env["TMPDIR"] = tmpdir
        /\ tmpdir # ""

C9_Witness ==
    /\ child.state = "spawned"
    /\ "GitHub_Token" \in DOMAIN environ
    /\ "PATH" \in DOMAIN environ
    /\ "LANG" \in DOMAIN child.env

\* C10: when control is back with the caller of the isolated path, nothing of
\* the invocation's scratch directory exists, whichever way the call ended.
C10_ScratchRemoved ==
    (pc \in {"done", "idle"}) => fs = {}

C10_Witness ==
    /\ Done
    /\ tmpdir # ""
    /\ child.state = "killed"
    /\ Failed(SubprocessTimeoutText)

(***************************************************************************)
(* Properties of repeated calls, the deadline, the limits, the validator   *)
(* and the namespace.                                                      *)
(***************************************************************************)
\* the call made the call before it again: same entry, code and context object
Repeats ==
    /\ Done
    /\ prev # NoPrev
    /\ entry = prev.entry
    /\ code = prev.code
    /\ call_context = prev.context

\* C11: a call made twice on the same engine with the same code and the same
\* context object gives the same success flag and the same result both times,
\* when no deadline expired and the process may restore its limits.
C11_SameOutcomeTwice ==
    (Repeats /\ privileged /\ ~Expired /\ ~prev.expired
             /\ outcome.kind = "returned" /\ prev.outcome.kind = "returned") =>
        /\ outcome.success = prev.outcome.success
        /\ outcome.result = prev.outcome.result

\* C12: when the deadline expires on a non-terminating snippet, the in-process
\* path and the isolated path give the same outcome: same success flag, same
\* result, same error text.
C12_SameTimeoutOnBothPaths ==
    (Done /\ prev # NoPrev /\ entry # prev.entry /\ code = prev.code
          /\ code = SrcLoop /\ privileged /\ Expired /\ prev.expired) =>
        /\ outcome.success = prev.outcome.success
        /\ outcome.result = prev.outcome.result
        /\ outcome.text = prev.outcome.text

\* the child's own timer expired: timeout_handler wrote its message
ChildTimedOut == child.stdout = StdoutError("Execution timeout")

C14_AlarmDisarmedOnReturn ==
    (Done /\ entry = "_execute_inline") =>
        /\ ~alarm_armed
        /\ handler = old_handler

\* C15: no statement of a snippet runs in the host unless the three ceilings
\* are in force; when lowering a limit failed, nothing of the snippet is
\* executed and the call returns a failed outcome.
C15_NoRunWithoutCeilings ==
    /\ pc = "inl_exec" => \A n \in LimitNames : rlimits[n] = Ceiling(n)
    /\ limits_error # "" => (~executed /\ pc \in {"inl_exit", "done"})
    /\ (Done /\ limits_error # "") => (outcome.kind = "returned" /\ ~outcome.success)

C15_Witness ==
    /\ Done
    /\ entry = "_execute_inline"
    /\ code = SrcArith
    /\ limits_error # ""
    /\ ~executed
    /\ Failed("Extension error: " \o limits_error)

RECURSIVE NamesIn(_), AttrsIn(_), IdsOfKids(_, _, _)
\* the identifiers (Name nodes) of a tree
NamesIn(node) ==
    (IF node.kind = "Name" THEN {node.id} ELSE {}) \cup IdsOfKids(node.kids, 1, TRUE)
\* the attributes accessed (Attribute nodes) in a tree
AttrsIn(node) ==
    (IF node.kind = "Attribute" THEN {node.id} ELSE {}) \cup IdsOfKids(node.kids, 1, FALSE)
IdsOfKids(kids, i, names) ==
    IF i > Len(kids) THEN {}
    ELSE (IF names THEN NamesIn(kids[i]) ELSE AttrsIn(kids[i]))
         \cup IdsOfKids(kids, i + 1, names)

Underscored(ids) == {x \in ids : StartsWith(x, "_")}
\* the validator has decided on the call's snippet
Decided == verdict \in {"accepted", "rejected"}

\* C17 as stated: the validator rejects every snippet in which a Name or an
\* accessed attribute begins with an underscore or is on the deny list.
C17_UnderscoreOrDeniedRejected ==
    LET ids == NamesIn(Parse(code)) \cup AttrsIn(Parse(code))
    IN  (Decided /\ (Underscored(ids) # {} \/ ids \cap FORBIDDEN_NAMES # {})) =>
            verdict = "rejected"

\* C17 amended: the validator rejects every snippet in which an accessed
\* attribute begins with an underscore, on the deny list or not, and every
\* snippet in which a Name or an accessed attribute is on the deny list.
C17_AttributesAndDenyList ==
    LET names == NamesIn(Parse(code))
        attrs == AttrsIn(Parse(code))
    IN  (Decided /\ (Underscored(attrs) # {} \/ (names \cup attrs) \cap FORBIDDEN_NAMES # {})) =>
            verdict = "rejected"

C17_Witness ==
    /\ code = SrcHidden
    /\ "_hidden" \notin FORBIDDEN_NAMES
    /\ verdict = "rejected"
    /\ exc = Exc("ValueError", PrivateError)

\* C18: a snippet the validator accepted reads no underscore-prefixed
\* attribute of any object when it runs.
C18_NoPrivateRead ==
    verdict = "accepted" => private_reads = {}

\* the names the claim lists as having no entry
AbsentNames ==
    {"__import__", "eval", "exec", "compile", "open", "input", "globals", "locals",
     "vars", "dir", "help", "setattr", "delattr"}

C20_ContextUnchanged ==
    Done => context = call_context

\* every thread is outside execute_extension
Quiescent == \A t \in Threads : threads[t].pc = "idle"

RECURSIVE CallsOf(_)
\* how many calls the threads in T have made
CallsOf(T) ==
    IF T = {} THEN 0
    ELSE LET t == CHOOSE x \in T : TRUE
         IN  threads[t].calls + CallsOf(T \ {t})

\* C21: two callers of execute_extension on one sandbox write no state that
\* they share, execution_count included: whenever both are outside the
\* method, the sandbox is as it would be had the calls been made one after
\* the other: it has counted every call, and no scratch directory is left.
C21_AsOneAfterTheOther ==
    Quiescent => (execution_count = CallsOf(Threads) /\ fs = {})

\* the three ceilings are the limits rl
CeilingsInForce(rl) ==
    DOMAIN rl = LimitNames /\ \A n \in LimitNames : rl[n] = Ceiling(n)

\* C22: on either strategy the process that is given the snippet to execute
\* holds the memory, file-size and open-file ceilings for as long as it has
\* it: the host while it executes the snippet's statements, the child from
\* its launch until it has exited.
C22_CeilingsWhereSnippetRuns ==
    /\ pc = "inl_exec" => CeilingsInForce(rlimits)
    /\ child.state \in {"spawned", "running"} => CeilingsInForce(child.rlimits)

\* where the host is while it runs _execute_inline
InProcess == {"inl_setup", "inl_limits", "inl_validate", "inl_exec", "inl_exit"}

ErrorPrefixes == {"Extension error: ", "Invalid output: ", "Subprocess execution failed: "}
IsErrorDescription(text) ==
    \/ text \in {InlineTimeoutText, SubprocessTimeoutText}
    \/ \E prefix \in ErrorPrefixes : StartsWith(text, prefix)

\* C24: a returned outcome has one payload: a failure has no result (None)
\* and an error description as its third component; a success has the captured
\* output, the printed lines joined, as its third component.
C24_OnePayload ==
    (Done /\ outcome.kind = "returned") =>
        /\ ~outcome.success =>
               (outcome.result = PyNone /\ IsErrorDescription(outcome.text))
        /\ outcome.success => outcome.text = JoinWith("\n", output_buffer)

C24_Witness ==
    /\ Done
    /\ code = SrcPrint
    /\ outcome.kind = "returned"
    /\ outcome.success
    /\ outcome.result = PyStr("ok")
    /\ Len(output_buffer) = 2
    /\ StartsWith(outcome.text, "hi\n")
    /\ ~IsErrorDescription(outcome.text)

\* what marks text the interpreter wrote about an uncaught error: the
\* traceback's header, a frame's line with the script's path, the line that
\* names the exception's type
RawDiagnosticMarks == {"Traceback (most recent call last)", "  File \"", "SyntaxError: "}

\* C25: the error text of a failed outcome holds the failure's message only,
\* on both paths, also when the child died of an uncaught error: no traceback
\* and no diagnostic of the interpreter is in it.
C25_NoRawDiagnostic ==
    (Done /\ outcome.kind = "returned" /\ ~outcome.success) =>
        \A mark \in RawDiagnosticMarks : ~Contains(outcome.text, mark)

\* the status changes the claim lists, as <<from, to>>
ClaimedTransitions ==
    {<<"pending", "in_progress">>, <<"in_progress", "review">>,
     <<"in_progress", "pending">>, <<"review", "completed">>, <<"review", "pending">>}

\* the last call was update_task_status on a task that exists
StatusUpdateCalled ==
    tm_call.op = "update_task_status" /\ tm_call.id \in DOMAIN tm_call.tasks

\* C26: update_task_status changes a task's status only along the five listed
\* transitions; a call that asks for any other change, a change of a completed
\* task included, raises ValueError, and the stored tasks and the audit log are
\* as they were before it.
C26_OnlyListedTransitions ==
    StatusUpdateCalled =>
        LET before == tm_call.tasks[tm_call.id].status
            listed == <<before, tm_call.arg>> \in ClaimedTransitions
        IN  /\ tm_call.error = "" =>
                   /\ listed
                   /\ tasks[tm_call.id].status = tm_call.arg
                   /\ \A i \in DOMAIN tasks \ {tm_call.id} : tasks[i] = tm_call.tasks[i]
            /\ ~listed =>
                   /\ StartsWith(tm_call.error, "ValueError: ")
                   /\ tasks = tm_call.tasks
                   /\ audit_log = tm_call.audit_log
            /\ tasks[tm_call.id].status # before => listed

C26_Witness ==
    /\ StatusUpdateCalled
    /\ tm_call.tasks[tm_call.id].status = "review"
    /\ tm_call.arg = "in_progress"
    /\ tm_call.error = "ValueError: Invalid transition from review to in_progress"
    /\ tasks = tm_call.tasks
    /\ tasks[tm_call.id].completed_at = Timestamp
    /\ Len(audit_log) = 3
    /\ audit_log = tm_call.audit_log

\* C27: whatever create_task, update_task_status and delete_task calls have
\* been made, each call changed a task's status only as can_transition_to
\* allows: no task went from pending or in_progress straight to completed.
C27_EveryChangeAllowed ==
    tm_call.op \in {"create_task", "update_task_status", "delete_task"} =>
        \A i \in DOMAIN tm_call.tasks :
            tasks[i].status # tm_call.tasks[i].status =>
                /\ can_transition_to(tm_call.tasks[i].status, tasks[i].status)
                /\ ~(tm_call.tasks[i].status \in {"pending", "in_progress"}
                       /\ tasks[i].status = "completed")

\* the tasks of the board that are not completed
OpenTasks(ts) ==
    ListByStatus(ts, "pending") \cup ListByStatus(ts, "in_progress")
        \cup ListByStatus(ts, "review")

\* C28: at most one phase is active.  create_phase succeeds only when no task
\* is pending, in progress or in review and the current phase has a task, and
\* then exactly one phase is active, numbered one more than the one before;
\* when it fails, the phase that was active is still the active one.
C28_OneActivePhase ==
    /\ Cardinality(ActivePhases(phases)) <= 1
    /\ tm_call.op = "create_phase" =>
          LET previous == CurrentPhase(tm_call.phases)
          IN  /\ (tm_call.error = "" /\ previous # 0) =>
                     /\ OpenTasks(tm_call.tasks) = {}
                     /\ ListByPhase(tm_call.tasks, previous) # {}
                     /\ Cardinality(ActivePhases(phases)) = 1
                     /\ phases[CurrentPhase(phases)].number
                            = tm_call.phases[previous].number + 1
              /\ (tm_call.error # "" /\ previous # 0) =>
                     /\ previous \in ActivePhases(phases)
                     /\ CurrentPhase(phases) = previous

\* the last call was load_state of a session that was stored, incomplete and
\* past its expiry when the call was made
LoadedExpired ==
    /\ wz_call.op = "load_state"
    /\ RowOf(wz_call.rows, wz_call.session_id) # 0
    /\ LET row == wz_call.rows[RowOf(wz_call.rows, wz_call.session_id)]
       IN  ~row.completed /\ row.expires_at < wz_call.at

\* C29: load_state of an incomplete session that has expired returns None and
\* removes the session, whether or not the session was loaded or saved before:
\* it never returns the session's state.
C29_ExpiredIsRemoved ==
    LoadedExpired =>
        /\ wz_call.error = ""
        /\ wz_call.result = <<>>
        /\ RowOf(wizard_states, wz_call.session_id) = 0
        /\ wz_call.session_id \notin DOMAIN recovery_cache

\* the rows a start_wizard call could have resumed: incomplete, unexpired, of
\* the wizard's name and with a context that matches the call's
Matching ==
    {i \in Resumable(wz_call.rows, wz_call.wizard_name, wz_call.at) :
        ContextsMatch(wz_call.rows[i].state_data.user_context, wz_call.user_context)}

\* C30: start_wizard resumes a stored session, and stores no new one, whenever
\* an incomplete, unexpired session of the same name with a matching context
\* exists, however many incomplete sessions of that name with other contexts
\* were updated after it (stated for sessions updated at different times than
\* the matching one).
C30_ResumesMatching ==
    (/\ wz_call.op = "start_wizard"
     /\ Matching # {}
     /\ \A i \in Matching :
            \A j \in Resumable(wz_call.rows, wz_call.wizard_name, wz_call.at) \ Matching :
                wz_call.rows[j].updated_at # wz_call.rows[i].updated_at) =>
        /\ wizard_states = wz_call.rows
        /\ wz_call.session_id \in {wz_call.rows[i].session_id : i \in Matching}

====
